---- MODULE Spec2Model ----
(***************************************************************************)
(* State-machine model of the WebRTC object-detection demo:                *)
(*   - the signaling broker and the inference engine of                    *)
(*     backend/webrtc-server.js (first variant in the file, lines 1-616),  *)
(*   - the viewer frame pipeline of components/WebRTCManager.tsx (the      *)
(*     variant at lines 485-1107).                                         *)
(* The specifications share the variables: SpecBroker (join, relay,        *)
(* disconnect), SpecEngine (process-frame with the broker's join and       *)
(* disconnect), SpecThrottle (the ingress throttle), SpecLoad (the model   *)
(* lifecycle), SpecViewer (the data-channel frame pipeline), SpecOffload   *)
(* (the viewer in server mode with the engine and a clock; SpecOffloadLive *)
(* adds the fairness of the event loop), SpecChurn (the viewer's signaling *)
(* while capture peers come and go), SpecPeerLeft (offloading while the    *)
(* capture peer leaves), SpecLocal (the viewer in wasm mode with its       *)
(* return channel, its metrics and its shutdown), SpecMetrics (the metrics *)
(* over a long run), SpecCapture (the streaming loop of the capture peer,   *)
(* pages/phone.tsx), SpecPost (postprocessResults on the tensors of the    *)
(* detector) and SpecNegotiation (offers, answers and ICE candidates of    *)
(* the viewer and the capture peers; SpecNegotiationLive adds the          *)
(* fairness of the viewer's event loop).                                   *)
(***************************************************************************)
EXTENDS Integers, Sequences, FiniteSets, TLC

\* Connection ids socket.io hands out.  A connection has no server state
\* before it joins; a client that reconnects gets a fresh id.
Sockets == {"s1", "s2", "s3"}
Rooms == {"r1", "r2"}
Types == {"phone", "browser"}
\* Opaque SDP / ICE payloads: each client sends the payload it created itself.
BodyOf == [s \in Sockets |-> IF s = "s1" THEN "sdp-s1" ELSE IF s = "s2" THEN "sdp-s2" ELSE "sdp-s3"]
None == "none"
\* connections.get(id) of a socket that has no entry.
NoConn == [room |-> None, type |-> None]
\* Before the first relay.
NoRelay == [kind |-> None, from |-> None, data |-> [room |-> None, body |-> None]]

\* Bound on the number of offer/answer/ice-candidate messages relayed in a run.
MaxRelays == 1
\* Bound on the number of process-frame requests in a run of SpecEngine.
MaxFrames == 2
\* Bound on the number of process-frame requests in a run of SpecThrottle.
MaxThrottleFrames == 3
\* Bound on the number of frames that reach the viewer in a run of SpecViewer.
MaxViewerFrames == 4
\* Date.now() when the server starts handling requests (ms).
StartTime == 1000
\* Bound on the number of frames that reach the viewer in a run of SpecOffload.
MaxOffloadFrames == 2
\* Bound on the clock steps of SpecOffload that no pending timer asks for.
MaxTicks == 1
\* Time a frame spends on the data channel between capture and arrival (ms).
ChannelDelay == 20
\* Bound on the number of model initialization requests in a run of SpecLoad.
MaxInits == 2
\* Frames the data channel delivers to the viewer in SpecLocal.
MaxLocalFrames == 2
\* Calls of sendFrame in a run of SpecCapture.
MaxCaptureFrames == 3
\* Frames the viewer processes in a run of SpecMetrics: more than LATENCY_WINDOW.
MaxMetricFrames == 102
\* The first frames of SpecMetrics, during whose inference the clock may be read.
MaxSlowFrames == 2
\* The first getStats() calls of SpecMetrics, which may be rejected.
MaxStatsRejected == 1
\* Bound on the ICE candidates the capture peers emit in a run.
MaxCandidates == 1
\* Rows of the output tensor (numDets).
MaxDets == 3
\* Steps of the coordinate grid: a tensor coordinate is a multiple of
\* INPUT_SIZE / Resolution pixels.
Resolution == 4

\* Minimum 100ms between frames per room.
FRAME_PROCESSING_INTERVAL == 100
\* Time elapsed between two reads of the clock (ms): around the throttle
\* interval, and a short gap that makes 101 ms out of 99 ms.
Elapsed == {2, FRAME_PROCESSING_INTERVAL - 1, FRAME_PROCESSING_INTERVAL}
\* In SpecEngine frames arrive one interval apart or just short of it.
EngineElapsed == {FRAME_PROCESSING_INTERVAL - 1, FRAME_PROCESSING_INTERVAL}
\* The connections that act in SpecEngine and SpecThrottle.
EngineSockets == {"s1", "s2"}

\* setTimeout(..., 200) of the offload promise (ms).
OFFLOAD_TIMEOUT == 200
\* One step of the clock in SpecOffload (ms).
TickLen == FRAME_PROCESSING_INTERVAL
\* The connection and the room (roomId) of the viewer of SpecOffload.
ViewerSocket == "s1"
ViewerRoom == "r1"
\* setInterval(() => { sendFrame(); }, 66) of the capture peer (ms).
STREAM_INTERVAL == 66
\* canvas.toDataURL('image/jpeg', 0.8) and the fallback 0.5, in percent.
JPEG_QUALITY == 80
FALLBACK_QUALITY == 50
\* if (latencyHistory.current.length > 100) latencyHistory.current.shift();
LATENCY_WINDOW == 100
\* if (bandwidthHistory.current.length > 10) bandwidthHistory.current.shift();
BANDWIDTH_WINDOW == 10
\* postprocessResults: the side of the model's input in pixels.
INPUT_SIZE == 640
\* postprocessResults: the confidence a candidate must exceed, in hundredths.
SCORE_THRESHOLD == 50
\* The confidence of the other copy of postprocessResults, in hundredths.
SCORE_FLOOR == 45
\* YOLO_CLASSES.length
NUM_CLASSES == 80
\* The overlap that suppresses a candidate, in tenths.
NMS_THRESHOLD == 5
\* fastIOU adds 1e-6 to the denominator: one part in EPSILON_DEN.
EPSILON_DEN == 1000000

VARIABLES
  status,              \* socket id -> "open" | "closed"
  rooms,               \* socket.io adapter: room -> set of member sockets
  connections,         \* Map socket id -> {room, type}   (None: no entry)
  phoneConnections,    \* Map room -> socket id, as a set of <<room, id>> entries
  browserConnections,  \* Map room -> socket id, as a set of <<room, id>> entries
  inbox,               \* socket id -> events the server emitted to it, in order
  relayed,             \* number of relays so far
  lastRelay,           \* the last relay handled: kind, sender and data
  session,             \* the detector: "null" until a load has completed, then "loaded"
  now,                 \* Date.now() as last read
  frameProcessingQueue,\* Map room -> ingress time of the last accepted frame (0: no entry)
  frames,              \* the process-frame requests in arrival order, with their progress
  engineLog,           \* what the engine emitted, in order: request, event, target
  resultLog,           \* the detection-result messages emitted, in order, with their target
  loads,               \* the calls of InferenceSession.create: who started them, their state
  initLog,             \* the initialization requests handled: requester and what was done
  isDetecting,         \* isDetecting.current
  frameQueue,          \* frameQueue.current
  processingFrame,     \* processingFrame.current
  arrived,             \* number of frames the data channel has delivered
  inFlight,            \* frames whose processFrame(...) promise is pending
  dispatched,          \* frames handed to processFrame, in order
  skipped,             \* frames that arrived while processingFrame was set
  received,            \* the frameData of every frame the data channel delivered
  offload,             \* frame -> its offload promise: timer, listener, outcome
  resultsDelivered,    \* number of detection-result messages the viewer's socket got
  returned,            \* the results sent on the return data channel, each with its frame
  viewerRead,          \* number of the events of its socket the viewer has handled
  offersDue,           \* pending setTimeout(createOffer, 100) timers
  offersMade,          \* number of offers the viewer has emitted
  peerConnection,      \* peerConnection.current: "open" | "closed"
  dataChannel,         \* readyState of dataChannel.current: "connecting" | "open" | "closed"
  frameCounter,        \* frameCounter.current
  latencyHistory,      \* latencyHistory.current
  bandwidthHistory,    \* bandwidthHistory.current
  statsPending,        \* the updateLatencyMetrics calls that await getStats(), in order
  metrics,             \* what onMetricsUpdate was called with, in order
  framesChannel,       \* capture peer: readyState of dataChannelRef.current
  streaming,           \* capture peer: the interval of startStreaming is running
  frameIdRef,          \* capture peer: frameIdRef.current
  sendLog,             \* capture peer: the send calls of sendFrame, with their outcome
  framesSent,          \* capture peer: framesSent
  output,              \* engine: the rows of the tensor runInference returned
  finalDetections,     \* engine: what postprocessResults returned for it
  postStage,           \* engine: "idle" | "inferred" | "returned"
  peerRead,            \* socket id -> number of its events a capture peer has handled
  remoteDescription,   \* socket id -> its peer connection has a remote description
  answersSent,         \* socket id -> number of answers the peer has emitted
  candidatesSent,      \* socket id -> number of ICE candidates the peer has emitted
  iceApplied,          \* socket id -> the candidates addIceCandidate has taken
  iceLost              \* socket id -> the candidates addIceCandidate has rejected

offloadVars == <<received, offload, resultsDelivered, returned>>

signalVars == <<viewerRead, offersDue, offersMade>>

rtcVars == <<peerConnection, dataChannel>>

metricVars == <<frameCounter, latencyHistory, bandwidthHistory, statsPending, metrics>>

viewerVars == <<isDetecting, frameQueue, processingFrame, arrived, inFlight,
                dispatched, skipped, offloadVars, signalVars, rtcVars, metricVars>>

captureVars == <<framesChannel, streaming, frameIdRef, sendLog, framesSent>>

postVars == <<output, finalDetections, postStage>>

iceVars == <<remoteDescription, iceApplied, iceLost>>

negoVars == <<peerRead, answersSent, candidatesSent, iceVars>>

loadVars == <<loads, initLog>>

engineVars == <<session, now, frameProcessingQueue, frames, engineLog, resultLog,
                loadVars>>

brokerVars == <<status, rooms, connections, phoneConnections,
                browserConnections, inbox, relayed, lastRelay>>

----------------------------------------------------------------------------
\* JavaScript Map, as the set of its entries.

MapHas(m, k) == \E e \in m : e[1] = k

MapGet(m, k) == IF MapHas(m, k) THEN (CHOOSE e \in m : e[1] = k)[2] ELSE None

\* A set() that keeps the entry already stored under the key.
MapSetKeepOld(m, k, v) == m \cup {<<k, v>>}

\* Map.prototype.set: the entry of the key is replaced.
MapSet(m, k, v) == {e \in m : e[1] # k} \cup {<<k, v>>}

MapDelete(m, k) == {e \in m : e[1] # k}

----------------------------------------------------------------------------
\* Events the server emits.

PeerJoined(id, t) ==
  [kind |-> "peer-joined", peerId |-> id, type |-> t,
   room |-> None, body |-> None, from |-> None]

PeerLeft(id, t) ==
  [kind |-> "peer-left", peerId |-> id, type |-> t,
   room |-> None, body |-> None, from |-> None]

\* { ...data, from: socket.id }
Relayed(kind, data, id) ==
  [kind |-> kind, peerId |-> None, type |-> None,
   room |-> data.room, body |-> data.body, from |-> id]

RelayKinds == {"offer", "answer", "ice-candidate"}

Opposite(t) == IF t = "phone" THEN "browser" ELSE "phone"

SlotOf(t) == IF t = "phone" THEN phoneConnections ELSE browserConnections

\* io.to(...).emit(ev) / socket.emit(ev): ev is appended for each target.
EmitToSet(box, targets, ev) ==
  [x \in Sockets |-> IF x \in targets THEN Append(box[x], ev) ELSE box[x]]

\* io.to(room) where socket.to(room) is written: the sender gets its own message.
RelayTargetsWithSender(s, room) == rooms[room]

\* socket.to(room): every socket in the room except the sender.
RelayTargets(s, room) == rooms[room] \ {s}

----------------------------------------------------------------------------
\* Signaling broker.

BrokerInit ==
  /\ status = [s \in Sockets |-> "open"]
  /\ rooms = [r \in Rooms |-> {}]
  /\ connections = [s \in Sockets |-> NoConn]
  /\ phoneConnections = {}
  /\ browserConnections = {}
  /\ inbox = [s \in Sockets |-> <<>>]
  /\ relayed = 0
  /\ lastRelay = NoRelay

\* The direct notice to the newcomer about the counterpart already there.
ExistingPeerNotice(room, type) ==
  LET existing == MapGet(SlotOf(Opposite(type)), room)
  IN  IF existing # None THEN <<PeerJoined(existing, Opposite(type))>> ELSE <<>>

\* A join that tells the room about the newcomer before the newcomer hears
\* about the counterpart.
JoinNoticesBroadcastFirst(s, room, type) ==
  [x \in Sockets |->
     IF x = s
       THEN inbox[x] \o <<PeerJoined(s, type)>> \o ExistingPeerNotice(room, type)
     ELSE IF x \in rooms[room]
       THEN Append(inbox[x], PeerJoined(s, type))
     ELSE inbox[x]]

\* socket.emit('peer-joined', existing) and then io.to(room).emit('peer-joined', self)
JoinNotices(s, room, type) ==
  [x \in Sockets |->
     IF x = s
       THEN inbox[x] \o ExistingPeerNotice(room, type) \o <<PeerJoined(s, type)>>
     ELSE IF x \in rooms[room]
       THEN Append(inbox[x], PeerJoined(s, type))
     ELSE inbox[x]]

\* socket.on('join-room').  Clients emit join-room once per connection, from
\* their 'connect' handler (pages/index.tsx, pages/phone.tsx).
JoinRoom(s, room, type) ==
  /\ status[s] = "open"
  /\ connections[s] = NoConn
  /\ rooms' = [rooms EXCEPT ![room] = @ \cup {s}]
  /\ connections' = [connections EXCEPT ![s] = [room |-> room, type |-> type]]
  /\ phoneConnections' =
       IF type = "phone" THEN MapSet(phoneConnections, room, s) ELSE phoneConnections
  /\ browserConnections' =
       IF type = "browser" THEN MapSet(browserConnections, room, s) ELSE browserConnections
  /\ inbox' = JoinNotices(s, room, type)
  /\ UNCHANGED <<status, relayed, lastRelay>>
  /\ UNCHANGED <<engineVars, viewerVars, captureVars, postVars, negoVars>>

\* The body shared by the offer, answer and ice-candidate handlers.
RelayHandler(kind, s, data) ==
  /\ status[s] = "open"
  /\ inbox' = EmitToSet(inbox, RelayTargets(s, data.room), Relayed(kind, data, s))
  /\ relayed' = relayed + 1
  /\ lastRelay' = [kind |-> kind, from |-> s, data |-> data]
  /\ UNCHANGED <<status, rooms, connections, phoneConnections, browserConnections>>

\* An offer, answer or ice-candidate message arrives while nothing else happens.
Relay(kind, s, data) ==
  /\ relayed < MaxRelays
  /\ RelayHandler(kind, s, data)
  /\ UNCHANGED <<engineVars, viewerVars, captureVars, postVars, negoVars>>

Offer(s, data) == Relay("offer", s, data)

Answer(s, data) == Relay("answer", s, data)

IceCandidate(s, data) == Relay("ice-candidate", s, data)

\* A disconnect that forgets to clear the role slot.
DisconnectSlotKept(m, s, room) == m

\* phoneConnections.delete(room) / browserConnections.delete(room)
DisconnectSlot(m, s, room) == MapDelete(m, room)

\* socket.on('disconnect'); socket.io has taken the socket out of its rooms.
Disconnect(s) ==
  /\ status[s] = "open"
  /\ status' = [status EXCEPT ![s] = "closed"]
  /\ rooms' = [r \in Rooms |-> rooms[r] \ {s}]
  /\ connections' = [connections EXCEPT ![s] = NoConn]
  /\ IF connections[s] # NoConn
       THEN LET room == connections[s].room
                type == connections[s].type
            IN  /\ phoneConnections' =
                     IF type = "phone"
                       THEN DisconnectSlot(phoneConnections, s, room)
                       ELSE phoneConnections
                /\ browserConnections' =
                     IF type = "browser"
                       THEN DisconnectSlot(browserConnections, s, room)
                       ELSE browserConnections
                /\ inbox' = EmitToSet(inbox, rooms[room] \ {s}, PeerLeft(s, type))
       ELSE UNCHANGED <<phoneConnections, browserConnections, inbox>>
  /\ UNCHANGED <<relayed, lastRelay>>
  /\ UNCHANGED <<engineVars, viewerVars, captureVars, postVars, negoVars>>

\* What socket s may put in an offer, answer or ice-candidate: any room name.
RelayData(s) == {[room |-> r, body |-> BodyOf[s]] : r \in Rooms}

BrokerNext ==
  \/ \E s \in Sockets, room \in Rooms, type \in Types : JoinRoom(s, room, type)
  \/ \E s \in Sockets : \E data \in RelayData(s) : Offer(s, data)
  \/ \E s \in Sockets : \E data \in RelayData(s) : Answer(s, data)
  \/ \E s \in Sockets : \E data \in RelayData(s) : IceCandidate(s, data)
  \/ \E s \in Sockets : Disconnect(s)

----------------------------------------------------------------------------
\* Inference engine.

EngineInit ==
  /\ session = "null"
  /\ now = StartTime
  /\ frameProcessingQueue = [r \in Rooms |-> 0]
  /\ frames = <<>>
  /\ engineLog = <<>>
  /\ resultLog = <<>>
  /\ loads = <<[by |-> "startup", state |-> "loading"]>>
  /\ initLog = <<>>

\* session = await ort.InferenceSession.create(...) of load k resolves: the
\* detector it created becomes the session, whatever the session was.
LoadComplete(k) ==
  /\ k \in 1..Len(loads)
  /\ loads[k].state = "loading"
  /\ session' = "loaded"
  /\ loads' = [loads EXCEPT ![k].state = "created"]
  /\ UNCHANGED <<now, frameProcessingQueue, frames, engineLog, resultLog, initLog>>
  /\ UNCHANGED <<brokerVars, viewerVars, captureVars, postVars, negoVars>>

\* InferenceSession.create(...) of load k rejects: the catch block logs (startup)
\* or answers with success: false; the session is left as it is.
LoadFail(k) ==
  /\ k \in 1..Len(loads)
  /\ loads[k].state = "loading"
  /\ loads' = [loads EXCEPT ![k].state = "failed"]
  /\ UNCHANGED <<session, now, frameProcessingQueue, frames, engineLog, resultLog, initLog>>
  /\ UNCHANGED <<brokerVars, viewerVars, captureVars, postVars, negoVars>>

\* The startup load completes.
LoadModel == LoadComplete(1)

\* POST /initialize-model (by = "http") and socket.on('initialize-server-model')
\* (by = the socket), up to the await: 'Model already loaded' if (session), and
\* a new call of InferenceSession.create otherwise.
InitializeModel(by) ==
  /\ by \in Sockets => status[by] = "open"
  /\ IF session # "null"
       THEN /\ initLog' = Append(initLog, [by |-> by, outcome |-> "already loaded", load |-> 0])
            /\ UNCHANGED loads
       ELSE /\ initLog' = Append(initLog, [by |-> by, outcome |-> "loading",
                                           load |-> Len(loads) + 1])
            /\ loads' = Append(loads, [by |-> by, state |-> "loading"])
  /\ UNCHANGED <<session, now, frameProcessingQueue, frames, engineLog, resultLog>>
  /\ UNCHANGED <<brokerVars, viewerVars, captureVars, postVars, negoVars>>

\* A handler that takes frames whether or not there is a session.
NotLoadedIgnored(sess) == FALSE

\* if (!session) throw new Error('Model not loaded');
NotLoaded(sess) == sess = "null"

\* A throttle test that is one millisecond short.
ThrottledShort(recv_ts, lastProcessTime) ==
  recv_ts - lastProcessTime < FRAME_PROCESSING_INTERVAL - 1

\* A throttle test that also drops a request at exactly the interval.
ThrottledInclusive(recv_ts, lastProcessTime) ==
  recv_ts - lastProcessTime <= FRAME_PROCESSING_INTERVAL

\* if (recv_ts - lastProcessTime < FRAME_PROCESSING_INTERVAL) return;
Throttled(recv_ts, lastProcessTime) ==
  recv_ts - lastProcessTime < FRAME_PROCESSING_INTERVAL

Emission(i, kind, to) == [req |-> i, kind |-> kind, to |-> to]

\* socket.on('process-frame'), up to the setImmediate call, for the message data
\* = {room, frame_id, capture_ts, imageData}; d is the time that passed since the
\* clock was last read.
ProcessFrameHandler(s, data, d) ==
  /\ status[s] = "open"
  /\ now' = now + d
  /\ LET i == Len(frames) + 1
         recv_ts == now'
         lastProcessTime == frameProcessingQueue[data.room]
         request == [room |-> data.room, from |-> s, recv_ts |-> recv_ts,
                     viewer |-> None, stage |-> "arrived",
                     frame_id |-> data.frame_id, capture_ts |-> data.capture_ts,
                     imageData |-> data.imageData]
     IN  IF NotLoaded(session)
           THEN \* throw new Error('Model not loaded'), caught by the outer catch
                /\ frames' = Append(frames, [request EXCEPT !.stage = "rejected"])
                /\ engineLog' = Append(engineLog, Emission(i, "processing-error", s))
                /\ UNCHANGED frameProcessingQueue
         ELSE IF Throttled(recv_ts, lastProcessTime)
           THEN /\ frames' = Append(frames, [request EXCEPT !.stage = "dropped"])
                /\ UNCHANGED <<frameProcessingQueue, engineLog>>
           ELSE /\ frameProcessingQueue' = [frameProcessingQueue EXCEPT ![data.room] = recv_ts]
                /\ frames' = Append(frames, [request EXCEPT !.stage = "scheduled"])
                /\ UNCHANGED engineLog
  /\ UNCHANGED <<session, resultLog, loadVars>>

\* A process-frame message arrives while nothing else happens.
ProcessFrame(s, data, d) ==
  /\ ProcessFrameHandler(s, data, d)
  /\ UNCHANGED <<brokerVars, viewerVars, captureVars, postVars, negoVars>>

\* The process-frame messages of SpecEngine and SpecThrottle for a room: the
\* frames are numbered as they arrive and were captured when the clock was last
\* read.
EngineFrameData(room) ==
  {[room |-> room, frame_id |-> Len(frames) + 1, capture_ts |-> now,
    imageData |-> Len(frames) + 1]}

SetStage(i, stage) == [frames EXCEPT ![i].stage = stage]

\* The setImmediate callback starts and suspends in await preprocessImage(...)
\* and then in await runInference(...); nothing shared changes in between.
TaskStart(i) ==
  /\ i \in 1..Len(frames)
  /\ frames[i].stage = "scheduled"
  /\ frames' = SetStage(i, "running")
  /\ UNCHANGED <<session, now, frameProcessingQueue, engineLog, resultLog, loadVars>>
  /\ UNCHANGED <<brokerVars, viewerVars, captureVars, postVars, negoVars>>

\* A catch block that gives the room its throttle slot back.
ThrottleAfterFailureRewound(queue, room) == [queue EXCEPT ![room] = 0]

\* The inner catch block logs and emits; frameProcessingQueue keeps the entry
\* the handler set when it accepted the frame.
ThrottleAfterFailure(queue, room) == queue

\* preprocessImage or runInference rejects: the inner catch emits processing-error
\* on the socket the request came from.
TaskFail(i) ==
  /\ i \in 1..Len(frames)
  /\ frames[i].stage = "running"
  /\ frames' = SetStage(i, "failed")
  /\ engineLog' = Append(engineLog, Emission(i, "processing-error", frames[i].from))
  /\ frameProcessingQueue' = ThrottleAfterFailure(frameProcessingQueue, frames[i].room)
  /\ UNCHANGED <<session, now, resultLog, loadVars>>
  /\ UNCHANGED <<brokerVars, viewerVars, captureVars, postVars, negoVars>>

\* A completion whose catch block also runs after the result went out.
ResultEmissionsThenError(i, browserSocketId) ==
  IF browserSocketId # None
    THEN <<Emission(i, "detection-result", browserSocketId),
           Emission(i, "processing-error", frames[i].from)>>
    ELSE <<>>

\* const browserSocketId = browserConnections.get(room);
\* if (browserSocketId) io.to(browserSocketId).emit('detection-result', result);
ResultEmissions(i, browserSocketId) ==
  IF browserSocketId # None
    THEN <<Emission(i, "detection-result", browserSocketId)>>
    ELSE <<>>

\* What the detector finds in an image: the image stands for its content.
PostprocessResults(imageData) == <<imageData>>

\* const result = { frame_id, capture_ts, recv_ts, inference_ts, detections }
DetectionResult(request, inference_ts, detections) ==
  [frame_id |-> request.frame_id,
   capture_ts |-> request.capture_ts,
   recv_ts |-> request.recv_ts,
   inference_ts |-> inference_ts,
   detections |-> detections]

\* A completion that answers on the socket the request came from.
ResultMessagesToSender(i, browserSocketId, result) ==
  <<[req |-> i, to |-> frames[i].from, result |-> result]>>

\* The detection-result messages of a completion, with their task and target.
ResultMessages(i, browserSocketId, result) ==
  IF browserSocketId # None
    THEN <<[req |-> i, to |-> browserSocketId, result |-> result]>>
    ELSE <<>>

\* runInference resolves; postprocessing and the emit run without suspension.
InferenceDone(i) ==
  /\ i \in 1..Len(frames)
  /\ frames[i].stage = "running"
  /\ LET browserSocketId == MapGet(browserConnections, frames[i].room)
         inference_ts == now
         result == DetectionResult(frames[i], inference_ts,
                                   PostprocessResults(frames[i].imageData))
     IN  /\ frames' = [frames EXCEPT ![i].stage = "done", ![i].viewer = browserSocketId]
         /\ engineLog' = engineLog \o ResultEmissions(i, browserSocketId)
         /\ resultLog' = resultLog \o ResultMessages(i, browserSocketId, result)
  /\ UNCHANGED <<session, now, frameProcessingQueue, loadVars>>
  /\ UNCHANGED <<brokerVars, viewerVars, captureVars, postVars, negoVars>>

\* The engine, with the broker steps that change what it reads: who is connected
\* and which connection holds the viewer slot of a room.
EngineNext ==
  \/ LoadModel
  \/ /\ Len(frames) < MaxFrames
     /\ \E s \in EngineSockets, room \in Rooms, d \in EngineElapsed :
          \E data \in EngineFrameData(room) : ProcessFrame(s, data, d)
  \/ \E i \in 1..MaxFrames : TaskStart(i)
  \/ \E i \in 1..MaxFrames : TaskFail(i)
  \/ \E i \in 1..MaxFrames : InferenceDone(i)
  \/ \E s \in EngineSockets, room \in Rooms : JoinRoom(s, room, "browser")
  \/ \E s \in EngineSockets : Disconnect(s)

\* Who asks for an initialization: an HTTP client or the connected viewer.
Requesters == {"http", ViewerSocket}

\* The model lifecycle: the startup load, initialization requests, and frames
\* that arrive before and after a detector exists.
LoadNext ==
  \/ \E k \in 1..(MaxInits + 1) : LoadComplete(k)
  \/ \E k \in 1..(MaxInits + 1) : LoadFail(k)
  \/ /\ Len(initLog) < MaxInits
     /\ \E by \in Requesters : InitializeModel(by)
  \/ /\ Len(frames) < MaxFrames
     /\ \E data \in EngineFrameData(ViewerRoom) :
          ProcessFrame(ViewerSocket, data, FRAME_PROCESSING_INTERVAL)
  \/ \E i \in 1..MaxFrames : TaskStart(i)
  \/ \E i \in 1..MaxFrames : InferenceDone(i)

\* The ingress throttle under a varying clock; no connection joins or leaves.
ThrottleNext ==
  \/ LoadModel
  \/ /\ Len(frames) < MaxThrottleFrames
     /\ \E s \in EngineSockets, room \in Rooms, d \in Elapsed :
          \E data \in EngineFrameData(room) : ProcessFrame(s, data, d)
  \/ \E i \in 1..MaxThrottleFrames : TaskStart(i)
  \/ \E i \in 1..MaxThrottleFrames : TaskFail(i)
  \/ \E i \in 1..MaxThrottleFrames : InferenceDone(i)

----------------------------------------------------------------------------
\* Viewer frame pipeline (WebRTCManager).

ViewerInit ==
  /\ isDetecting = FALSE
  /\ frameQueue = <<>>
  /\ processingFrame = FALSE
  /\ arrived = 0
  /\ inFlight = {}
  /\ dispatched = <<>>
  /\ skipped = {}
  /\ received = <<>>
  /\ offload = <<>>
  /\ resultsDelivered = 0
  /\ returned = <<>>
  /\ viewerRead = 0
  /\ offersDue = 0
  /\ offersMade = 0
  /\ peerConnection = "open"
  /\ dataChannel = "connecting"
  /\ frameCounter = 0
  /\ latencyHistory = <<>>
  /\ bandwidthHistory = <<>>
  /\ statsPending = <<>>
  /\ metrics = <<>>

\* startDetection, with startMetricsCollection
StartDetection ==
  /\ isDetecting' = TRUE
  /\ frameCounter' = 0
  /\ latencyHistory' = <<>>
  /\ bandwidthHistory' = <<>>
  /\ UNCHANGED <<frameQueue, processingFrame, arrived, inFlight, dispatched, skipped>>
  /\ UNCHANGED <<statsPending, metrics>>
  /\ UNCHANGED <<offloadVars, signalVars, rtcVars, brokerVars, engineVars, captureVars, postVars, negoVars>>

\* stopDetection: the queue and the flag are reset whatever is in flight.
StopDetection ==
  /\ isDetecting' = FALSE
  /\ frameQueue' = <<>>
  /\ processingFrame' = FALSE
  /\ UNCHANGED <<arrived, inFlight, dispatched, skipped>>
  /\ UNCHANGED <<offloadVars, signalVars, rtcVars, metricVars, brokerVars, engineVars, captureVars, postVars, negoVars>>

\* cleanup of the imperative handle
Cleanup ==
  /\ isDetecting' = FALSE
  /\ frameQueue' = <<>>
  /\ processingFrame' = FALSE
  /\ UNCHANGED <<arrived, inFlight, dispatched, skipped>>
  /\ UNCHANGED <<offloadVars, signalVars, rtcVars, metricVars, brokerVars, engineVars, captureVars, postVars, negoVars>>

\* socket.on('peer-left') for the phone: detection stops, the pipeline is left alone.
ViewerPeerLeft ==
  /\ isDetecting' = FALSE
  /\ UNCHANGED <<frameQueue, processingFrame, arrived, inFlight, dispatched, skipped>>
  /\ UNCHANGED <<offloadVars, signalVars, rtcVars, metricVars, brokerVars, engineVars, captureVars, postVars, negoVars>>

\* An onmessage that keeps the newest frame pending while a frame is processed.
QueueWhenBusyKeepNewest(queue, f) == <<f>>

\* onmessage while processingFrame is set: return, the frame is not stored.
QueueWhenBusy(queue, f) == queue

\* processFrameQueue up to its await: [queue, processing, started], started being
\* the frames (none or one) handed to processFrame.
ProcessFrameQueue(queue, processing) ==
  IF Len(queue) = 0 \/ processing
    THEN [queue |-> queue, processing |-> processing, started |-> <<>>]
    ELSE [queue |-> Tail(queue), processing |-> TRUE, started |-> <<Head(queue)>>]

\* The promise of a frame that has not been offloaded.
NoProcessed == [frame_id |-> 0, inference_ts |-> 0, detections |-> <<>>, by |-> None]

NoOffload == [stage |-> None, deadline |-> 0, timer |-> None, listening |-> FALSE,
              processed |-> NoProcessed]

\* const frameData = JSON.parse(event.data): the frame the capture peer made
\* ChannelDelay ms ago; at is the time of the onmessage call.
FrameData(f) ==
  [frame_id |-> f, capture_ts |-> now - ChannelDelay, imageData |-> f, at |-> now]

\* channel.onmessage for the next frame of the data channel.
OnMessage ==
  LET f == arrived + 1
  IN  /\ arrived' = f
      /\ received' = Append(received, FrameData(f))
      /\ offload' = Append(offload, NoOffload)
      /\ UNCHANGED <<resultsDelivered, returned>>
      /\ IF ~isDetecting
           THEN UNCHANGED <<frameQueue, processingFrame, inFlight, dispatched, skipped>>
         ELSE IF processingFrame
           THEN /\ frameQueue' = QueueWhenBusy(frameQueue, f)
                /\ skipped' = skipped \cup {f}
                /\ UNCHANGED <<processingFrame, inFlight, dispatched>>
           ELSE LET r == ProcessFrameQueue(<<f>>, processingFrame)
                IN  /\ frameQueue' = r.queue
                    /\ processingFrame' = r.processing
                    /\ inFlight' = inFlight \cup {r.started[i] : i \in 1..Len(r.started)}
                    /\ dispatched' = dispatched \o r.started
                    /\ UNCHANGED skipped
      /\ UNCHANGED isDetecting
      /\ UNCHANGED <<signalVars, rtcVars, metricVars, brokerVars, engineVars, captureVars, postVars, negoVars>>

\* await processFrame(frameData) settles; the rest of processFrameQueue runs:
\* finally { processingFrame.current = false }, and no further dispatch.
ProcessFrameSettled(f) ==
  /\ f \in inFlight
  /\ inFlight' = inFlight \ {f}
  /\ processingFrame' = FALSE
  /\ UNCHANGED <<isDetecting, frameQueue, arrived, dispatched, skipped>>
  /\ UNCHANGED <<offloadVars, signalVars, rtcVars, metricVars, brokerVars, engineVars, captureVars, postVars, negoVars>>

----------------------------------------------------------------------------
\* Viewer in server mode: processFrame offloads the frame to the engine.

\* A result that takes its identity from the reply instead of the frame.
ViewerResultFromReply(frameData, processed) ==
  [frame_id |-> processed.frame_id,
   capture_ts |-> frameData.capture_ts,
   recv_ts |-> frameData.at,
   inference_ts |-> processed.inference_ts,
   detections |-> processed.detections]

\* const result = { frame_id, capture_ts, recv_ts, inference_ts, detections };
\* recv_ts was read when onmessage dispatched the frame.
ViewerResult(frameData, processed) ==
  [frame_id |-> frameData.frame_id,
   capture_ts |-> frameData.capture_ts,
   recv_ts |-> frameData.at,
   inference_ts |-> processed.inference_ts,
   detections |-> processed.detections]

\* The frames of a set in ascending order.
RECURSIVE Ascending(_)
Ascending(S) ==
  IF S = {} THEN <<>>
  ELSE LET f == CHOOSE x \in S : \A y \in S : x <= y
       IN  <<f>> \o Ascending(S \ {f})

\* Return sends that do not look at the state of the channel.
RECURSIVE ReturnSendsAnyState(_, _)
ReturnSendsAnyState(fs, off) ==
  IF fs = <<>> THEN <<>>
  ELSE LET result == ViewerResult(received[Head(fs)], off[Head(fs)].processed)
           sent == [frame |-> Head(fs), result |-> result]
       IN  <<sent, sent>> \o ReturnSendsAnyState(Tail(fs), off)

\* What the viewer sends on the return channel for the resolved promises of the
\* frames fs: processFrame sends the result, and processFrameQueue sends it
\* again, each if (dataChannel.current.readyState === 'open'); nothing is kept
\* of a result that is not sent.
RECURSIVE ReturnSends(_, _)
ReturnSends(fs, off) ==
  IF fs = <<>> \/ dataChannel # "open" THEN <<>>
  ELSE LET result == ViewerResult(received[Head(fs)], off[Head(fs)].processed)
           sent == [frame |-> Head(fs), result |-> result]
       IN  <<sent, sent>> \o ReturnSends(Tail(fs), off)

\* A push that keeps the oldest entries of a full history.
PushBoundedKeepOldest(history, x, window) ==
  IF Len(history) >= window THEN history ELSE Append(history, x)

\* history.push(x); if (history.length > window) history.shift();
PushBounded(history, x, window) ==
  LET pushed == Append(history, x)
  IN  IF Len(pushed) > window THEN Tail(pushed) ELSE pushed

\* array.sort((a, b) => a - b): the elements of array in ascending order.  The
\* element at position i is the value that has fewer than i elements below it
\* and at least i elements not above it.
SortAscending(array) ==
  [i \in 1..Len(array) |->
     CHOOSE v \in {array[k] : k \in 1..Len(array)} :
       /\ Cardinality({k \in 1..Len(array) : array[k] < v}) < i
       /\ Cardinality({k \in 1..Len(array) : array[k] <= v}) >= i]

\* Math.floor(sorted.length / 2)
MedianIndex(n) == n \div 2

\* The index of the largest element.
P95IndexLast(n) == n - 1

\* Math.floor(sorted.length * 0.95); for the lengths 1..LATENCY_WINDOW the
\* double product rounds to a value whose floor is that of 95 n / 100.
P95Index(n) == (n * 95) \div 100

\* sorted[index] || 0, index counted from 0
ElementOrZero(sorted, index) ==
  IF index < Len(sorted) THEN sorted[index + 1] ELSE 0

\* updateLatencyMetrics(result) up to await getStats(), for each of results in
\* turn: [latencyHistory, statsPending] after the calls.  A waiting call holds
\* its result, its e2eLatency and the copy [...latencyHistory.current] that its
\* median and p95 are taken from.
RECURSIVE UpdateLatencyMetrics(_, _, _)
UpdateLatencyMetrics(results, history, pending) ==
  IF results = <<>> THEN [latencyHistory |-> history, statsPending |-> pending]
  ELSE LET result == Head(results)
           e2eLatency == now - result.capture_ts
           pushed == PushBounded(history, e2eLatency, LATENCY_WINDOW)
           call == [result |-> result, e2eLatency |-> e2eLatency, copy |-> pushed]
       IN  UpdateLatencyMetrics(Tail(results), pushed, Append(pending, call))

\* The results of the resolved promises of the frames fs.
ResultsOf(fs, off) ==
  [k \in 1..Len(fs) |-> ViewerResult(received[fs[k]], off[fs[k]].processed)]

\* frameCounter.current++ and updateLatencyMetrics(result) of processFrameQueue,
\* for the frames fs.
CountAndMeasure(fs, off) ==
  \E m \in {UpdateLatencyMetrics(ResultsOf(fs, off), latencyHistory, statsPending)} :
      /\ frameCounter' = frameCounter + Len(fs)
      /\ latencyHistory' = m.latencyHistory
      /\ statsPending' = m.statsPending
      /\ UNCHANGED <<bandwidthHistory, metrics>>

\* A continuation whose finally block leaves the processing flag set.
ContinueFlagKept(fs, off) ==
  /\ offload' = off
  /\ returned' = returned \o ReturnSends(Ascending(fs), off)
  /\ inFlight' = inFlight \ fs
  /\ processingFrame' = processingFrame
  /\ CountAndMeasure(Ascending(fs), off)

\* The rest of processFrame and of processFrameQueue once the awaited promise of
\* the frames fs is resolved, off being the promises after the resolution.
Continue(fs, off) ==
  /\ offload' = off
  /\ returned' = returned \o ReturnSends(Ascending(fs), off)
  /\ inFlight' = inFlight \ fs
  /\ processingFrame' = IF fs = {} THEN processingFrame ELSE FALSE
  /\ CountAndMeasure(Ascending(fs), off)

\* The image of the dispatched frame has loaded: the timer is set, the once
\* listener registered and process-frame emitted; the engine's handler runs.
OffloadSend(f) ==
  /\ f \in inFlight
  /\ offload[f].stage = None
  /\ connections[ViewerSocket] = [room |-> ViewerRoom, type |-> "browser"]
  /\ offload' = [offload EXCEPT ![f] =
                   [stage |-> "waiting", deadline |-> now + OFFLOAD_TIMEOUT,
                    timer |-> "armed", listening |-> TRUE, processed |-> NoProcessed]]
  /\ ProcessFrameHandler(ViewerSocket,
                         [room |-> ViewerRoom, frame_id |-> received[f].frame_id,
                          capture_ts |-> received[f].capture_ts,
                          imageData |-> received[f].imageData], 0)
  /\ UNCHANGED <<isDetecting, frameQueue, processingFrame, arrived, inFlight,
                 dispatched, skipped, received, resultsDelivered, returned>>
  /\ UNCHANGED <<signalVars, rtcVars, metricVars, brokerVars, captureVars, postVars, negoVars>>

\* The image of the dispatched frame fails to load: catch, inference_ts = Date.now().
OffloadImageError(f) ==
  /\ f \in inFlight
  /\ offload[f].stage = None
  /\ Continue({f}, [offload EXCEPT ![f].stage = "settled",
                                   ![f].processed = [frame_id |-> 0, inference_ts |-> now,
                                                     detections |-> <<>>, by |-> "error"]])
  /\ UNCHANGED <<isDetecting, frameQueue, arrived, dispatched, skipped, received,
                 resultsDelivered>>
  /\ UNCHANGED <<signalVars, rtcVars, brokerVars, engineVars, captureVars, postVars, negoVars>>

\* The timer of the promise fires: resolve({ detections: [], inference_ts: Date.now() }).
\* The once listener stays registered.
OffloadTimeout(f) ==
  /\ f \in 1..Len(offload)
  /\ offload[f].timer = "armed"
  /\ now >= offload[f].deadline
  /\ Continue({f}, [offload EXCEPT ![f].stage = "settled",
                                   ![f].timer = "fired",
                                   ![f].processed = [frame_id |-> 0, inference_ts |-> now,
                                                     detections |-> <<>>, by |-> "timeout"]])
  /\ UNCHANGED <<isDetecting, frameQueue, arrived, dispatched, skipped, received,
                 resultsDelivered>>
  /\ UNCHANGED <<signalVars, rtcVars, brokerVars, engineVars, captureVars, postVars, negoVars>>

\* socket.once('detection-result', ...): every listener that is registered when a
\* detection-result arrives is called with it, whatever frame it is for.
Listeners(result) == {f \in 1..Len(offload) : offload[f].listening}

\* The next detection-result message reaches the viewer's socket: each called
\* listener is removed, clears its timer and resolves its promise with the
\* message (a promise that is already resolved stays as it is).
DeliverResult ==
  /\ resultsDelivered < Len(resultLog)
  /\ resultsDelivered' = resultsDelivered + 1
  /\ LET message == resultLog[resultsDelivered + 1]
         called == IF message.to = ViewerSocket THEN Listeners(message.result) ELSE {}
         resolved == {f \in called : offload[f].stage = "waiting"}
         off == [f \in 1..Len(offload) |->
                   IF f \notin called THEN offload[f]
                   ELSE [stage |-> "settled",
                         deadline |-> offload[f].deadline,
                         timer |-> IF offload[f].timer = "armed" THEN "cleared"
                                   ELSE offload[f].timer,
                         listening |-> FALSE,
                         processed |-> IF f \in resolved
                                         THEN [frame_id |-> message.result.frame_id,
                                               inference_ts |-> message.result.inference_ts,
                                               detections |-> message.result.detections,
                                               by |-> "reply"]
                                         ELSE offload[f].processed]]
     IN  Continue(resolved, off)
  /\ UNCHANGED <<isDetecting, frameQueue, arrived, dispatched, skipped, received>>
  /\ UNCHANGED <<signalVars, rtcVars, brokerVars, engineVars, captureVars, postVars, negoVars>>

\* Time passes.  A timer that is due fires before the clock moves on, and the
\* clock keeps moving while a timer is pending.
Tick ==
  /\ \A f \in 1..Len(offload) : offload[f].timer = "armed" => now < offload[f].deadline
  /\ \/ now < StartTime + MaxTicks * TickLen
     \/ \E f \in 1..Len(offload) : offload[f].timer = "armed"
  /\ now' = now + TickLen
  /\ UNCHANGED <<session, frameProcessingQueue, frames, engineLog, resultLog, loadVars>>
  /\ UNCHANGED <<brokerVars, viewerVars, captureVars, postVars, negoVars>>

\* The 'detections' channel the viewer created in setupWebRTC opens.
ChannelOpen ==
  /\ peerConnection = "open"
  /\ dataChannel = "connecting"
  /\ dataChannel' = "open"
  /\ UNCHANGED peerConnection
  /\ UNCHANGED <<isDetecting, frameQueue, processingFrame, arrived, inFlight, dispatched,
                 skipped, offloadVars, signalVars, metricVars>>
  /\ UNCHANGED <<brokerVars, engineVars, captureVars, postVars, negoVars>>

\* The channel is closed from the other side or with the transport.
ChannelClose ==
  /\ dataChannel \in {"connecting", "open"}
  /\ dataChannel' = "closed"
  /\ UNCHANGED peerConnection
  /\ UNCHANGED <<isDetecting, frameQueue, processingFrame, arrived, inFlight, dispatched,
                 skipped, offloadVars, signalVars, metricVars>>
  /\ UNCHANGED <<brokerVars, engineVars, captureVars, postVars, negoVars>>

\* cleanup of the component, run when it unmounts: detection off, the data
\* channel and the peer connection closed; the pipeline is left alone.
CleanupOnUnmount ==
  /\ peerConnection = "open"
  /\ isDetecting' = FALSE
  /\ dataChannel' = "closed"
  /\ peerConnection' = "closed"
  /\ UNCHANGED <<frameQueue, processingFrame, arrived, inFlight, dispatched, skipped,
                 offloadVars, signalVars, metricVars>>
  /\ UNCHANGED <<brokerVars, engineVars, captureVars, postVars, negoVars>>

\* runYoloModel(imageData) of the local model, by what it is computed from.
LocalDetections(imageData) == <<imageData>>

\* processFrame in wasm mode completes for the dispatched frame: the image
\* loaded and the local model ran (ok), or one of them threw and the catch left
\* the detections empty; inference_ts = Date.now().
LocalInference(f, ok) ==
  /\ f \in inFlight
  /\ offload[f].stage = None
  /\ Continue({f}, [offload EXCEPT
                      ![f].stage = "settled",
                      ![f].processed =
                         [frame_id |-> 0, inference_ts |-> now,
                          detections |-> IF ok THEN LocalDetections(received[f].imageData)
                                         ELSE <<>>,
                          by |-> "local"]])
  /\ UNCHANGED <<isDetecting, frameQueue, arrived, dispatched, skipped, received,
                 resultsDelivered>>
  /\ UNCHANGED <<signalVars, rtcVars, brokerVars, engineVars, captureVars, postVars, negoVars>>

\* The bytes getStats() reports for the transport, counted in messages: the
\* results sent and the frames received so far.
Stats == [bytesSent |-> Len(returned), bytesReceived |-> arrived]

\* const median = sorted[Math.floor(sorted.length / 2)] || 0, sorted being the
\* sorted copy of the history.
Median(copy) ==
  LET sorted == SortAscending(copy)
  IN  ElementOrZero(sorted, MedianIndex(Len(copy)))

\* const p95 = sorted[Math.floor(sorted.length * 0.95)] || 0
P95(copy) ==
  LET sorted == SortAscending(copy)
  IN  ElementOrZero(sorted, P95Index(Len(copy)))

\* onMetricsUpdate({...}) for the updateLatencyMetrics call, without the rates
\* (processingFps, uplink, downlink).
MetricsUpdate(call) ==
  [current |-> call.e2eLatency,
   median |-> Median(call.copy),
   p95 |-> P95(call.copy),
   serverLatency |-> call.result.inference_ts - call.result.recv_ts,
   networkLatency |-> call.result.recv_ts - call.result.capture_ts,
   framesProcessed |-> frameCounter]

\* getStats() of the oldest waiting updateLatencyMetrics call resolves: the
\* snapshot is pushed and the metrics are reported.
StatsResolved ==
  /\ statsPending # <<>>
  /\ bandwidthHistory' =
       PushBounded(bandwidthHistory,
                   [timestamp |-> now, bytesSent |-> Stats.bytesSent,
                    bytesReceived |-> Stats.bytesReceived],
                   BANDWIDTH_WINDOW)
  /\ metrics' = Append(metrics, MetricsUpdate(Head(statsPending)))
  /\ statsPending' = Tail(statsPending)
  /\ UNCHANGED <<frameCounter, latencyHistory>>
  /\ UNCHANGED <<isDetecting, frameQueue, processingFrame, arrived, inFlight, dispatched,
                 skipped, offloadVars, signalVars, rtcVars>>
  /\ UNCHANGED <<brokerVars, engineVars, captureVars, postVars, negoVars>>

\* getStats() rejects: the catch logs, no snapshot is pushed, the metrics are
\* reported.
StatsRejected ==
  /\ statsPending # <<>>
  /\ metrics' = Append(metrics, MetricsUpdate(Head(statsPending)))
  /\ statsPending' = Tail(statsPending)
  /\ UNCHANGED <<frameCounter, latencyHistory, bandwidthHistory>>
  /\ UNCHANGED <<isDetecting, frameQueue, processingFrame, arrived, inFlight, dispatched,
                 skipped, offloadVars, signalVars, rtcVars>>
  /\ UNCHANGED <<brokerVars, engineVars, captureVars, postVars, negoVars>>

\* The viewer in server mode, its connection to the broker and the engine.  The
\* page starts detection when it is off (pages/index.tsx), and frames arrive on
\* the transport that has opened the viewer's channel.
OffloadNext ==
  \/ JoinRoom(ViewerSocket, ViewerRoom, "browser")
  \/ ChannelOpen
  \/ LoadModel
  \/ ~isDetecting /\ StartDetection
  \/ arrived < MaxOffloadFrames /\ dataChannel = "open" /\ OnMessage
  \/ \E f \in 1..MaxOffloadFrames : OffloadSend(f)
  \/ \E f \in 1..MaxOffloadFrames : OffloadImageError(f)
  \/ \E f \in 1..MaxOffloadFrames : OffloadTimeout(f)
  \/ DeliverResult
  \/ \E i \in 1..MaxOffloadFrames : TaskStart(i)
  \/ \E i \in 1..MaxOffloadFrames : TaskFail(i)
  \/ \E i \in 1..MaxOffloadFrames : InferenceDone(i)
  \/ Tick

----------------------------------------------------------------------------
\* Viewer signaling (setupSocketListeners, createOffer).

NegoInit ==
  /\ peerRead = [s \in Sockets |-> 0]
  /\ remoteDescription = [s \in Sockets |-> FALSE]
  /\ answersSent = [s \in Sockets |-> 0]
  /\ candidatesSent = [s \in Sockets |-> 0]
  /\ iceApplied = [s \in Sockets |-> <<>>]
  /\ iceLost = [s \in Sockets |-> <<>>]

\* await peerConnection.setRemoteDescription(...) in the listener of the event
\* kind that carries the counterpart's descriptor.
DescriptionAfter(s, ev, kind) ==
  IF ev.kind = kind THEN [remoteDescription EXCEPT ![s] = TRUE]
  ELSE remoteDescription

\* await peerConnection.addIceCandidate(data.candidate): a peer connection
\* without a remote description rejects the candidate, and the listener's
\* catch logs the error.
IceOutcome(s) == IF remoteDescription[s] THEN "applied" ELSE "rejected"

\* The ice-candidate listener of peer s for the event ev.
AddIceCandidate(s, ev) ==
  IF ev.kind = "ice-candidate"
    THEN IF IceOutcome(s) = "applied"
           THEN /\ iceApplied' = [iceApplied EXCEPT ![s] = Append(@, ev)]
                /\ UNCHANGED iceLost
           ELSE /\ iceLost' = [iceLost EXCEPT ![s] = Append(@, ev)]
                /\ UNCHANGED iceApplied
    ELSE UNCHANGED <<iceApplied, iceLost>>

\* A peer-left handler that leaves detection on.
DetectingAfterKept(ev, detecting) == detecting

\* socket.on('peer-left'): if (data.type === 'phone') isDetecting.current = false
DetectingAfter(ev, detecting) ==
  IF ev.kind = "peer-left" /\ ev.type = "phone" THEN FALSE ELSE detecting

\* socket.on('peer-joined'): if (data.type === 'phone') setTimeout(createOffer, 100)
OffersScheduledBy(ev) ==
  IF ev.kind = "peer-joined" /\ ev.type = "phone" THEN 1 ELSE 0

\* The viewer's socket listeners get the next event the server emitted to it.
ViewerHandle ==
  /\ viewerRead < Len(inbox[ViewerSocket])
  /\ LET ev == inbox[ViewerSocket][viewerRead + 1]
     IN  /\ isDetecting' = DetectingAfter(ev, isDetecting)
         /\ offersDue' = offersDue + OffersScheduledBy(ev)
         /\ remoteDescription' = DescriptionAfter(ViewerSocket, ev, "answer")
         /\ AddIceCandidate(ViewerSocket, ev)
  /\ viewerRead' = viewerRead + 1
  /\ UNCHANGED <<frameQueue, processingFrame, arrived, inFlight, dispatched, skipped,
                 offloadVars, offersMade, rtcVars, metricVars>>
  /\ UNCHANGED <<peerRead, answersSent, candidatesSent>>
  /\ UNCHANGED <<brokerVars, engineVars, captureVars, postVars>>

\* A createOffer timer fires: the offer is made and emitted for the viewer's room,
\* and the broker's offer handler relays it.
CreateOffer ==
  /\ offersDue > 0
  /\ offersDue' = offersDue - 1
  /\ offersMade' = offersMade + 1
  /\ RelayHandler("offer", ViewerSocket, [room |-> ViewerRoom, body |-> BodyOf[ViewerSocket]])
  /\ UNCHANGED <<isDetecting, frameQueue, processingFrame, arrived, inFlight, dispatched,
                 skipped, offloadVars, viewerRead, rtcVars, metricVars>>
  /\ UNCHANGED <<engineVars, captureVars, postVars, negoVars>>

\* The capture peers of the churn scenario.
CaptureSockets == Sockets \ {ViewerSocket}

\* Peer churn: the viewer joins its room, capture peers come and go.
ChurnNext ==
  \/ JoinRoom(ViewerSocket, ViewerRoom, "browser")
  \/ \E s \in CaptureSockets, room \in Rooms : JoinRoom(s, room, "phone")
  \/ \E s \in CaptureSockets : Disconnect(s)
  \/ StartDetection
  \/ ViewerHandle
  \/ CreateOffer

----------------------------------------------------------------------------
\* Session negotiation: the descriptors and ICE candidates of the peers
\* (WebRTCManager socket listeners, pages/phone.tsx socket listeners).

\* A capture peer that answers whatever it is told.
AnswersAnyEvent(ev) == ev.kind \in {"offer", "peer-joined"}

\* The capture peer emits an answer from its offer listener only.
AnswersTo(ev) == ev.kind = "offer"

\* The socket listeners of capture peer s get the next event the server
\* emitted to it: offer (set the remote description, create the answer and
\* emit it for the peer's room), answer, ice-candidate, peer-joined.
PeerHandle(s) ==
  /\ status[s] = "open"
  /\ connections[s] # NoConn
  /\ peerRead[s] < Len(inbox[s])
  /\ LET ev == inbox[s][peerRead[s] + 1]
     IN  /\ remoteDescription' = DescriptionAfter(s, ev, "offer")
         /\ AddIceCandidate(s, ev)
         /\ IF AnswersTo(ev)
              THEN /\ answersSent' = [answersSent EXCEPT ![s] = @ + 1]
                   /\ RelayHandler("answer", s,
                        [room |-> connections[s].room, body |-> BodyOf[s]])
              ELSE UNCHANGED <<answersSent, brokerVars>>
  /\ peerRead' = [peerRead EXCEPT ![s] = @ + 1]
  /\ UNCHANGED candidatesSent
  /\ UNCHANGED <<engineVars, viewerVars, captureVars, postVars>>

\* peerConnectionRef.current.onicecandidate of capture peer s: gathering starts
\* with setLocalDescription(answer).
PeerIceCandidate(s) ==
  /\ answersSent[s] > 0
  /\ connections[s] # NoConn
  /\ candidatesSent' = [candidatesSent EXCEPT ![s] = @ + 1]
  /\ RelayHandler("ice-candidate", s,
       [room |-> connections[s].room, body |-> BodyOf[s]])
  /\ UNCHANGED <<peerRead, answersSent, iceVars>>
  /\ UNCHANGED <<engineVars, viewerVars, captureVars, postVars>>

\* The candidates emitted so far.
CandidatesEmitted ==
  LET RECURSIVE Sum(_)
      Sum(S) == IF S = {} THEN 0
                ELSE LET s == CHOOSE x \in S : TRUE
                     IN  candidatesSent[s] + Sum(S \ {s})
  IN  Sum(Sockets)

\* Negotiation: the viewer and the capture peers join the viewer's room, every
\* peer handles what the broker sends it, and the capture peers emit their
\* candidates.  The viewer emits none: its onicecandidate handler is set up on
\* mount and closes over the socket prop of the first render, which is null
\* (pages/index.tsx creates the socket in its own mount effect).
NegotiationNext ==
  \/ JoinRoom(ViewerSocket, ViewerRoom, "browser")
  \/ \E s \in CaptureSockets : JoinRoom(s, ViewerRoom, "phone")
  \/ ViewerHandle
  \/ CreateOffer
  \/ \E s \in CaptureSockets : PeerHandle(s)
  \/ \E s \in CaptureSockets :
       CandidatesEmitted < MaxCandidates /\ PeerIceCandidate(s)

----------------------------------------------------------------------------
\* Inference engine: postprocessResults and fastIOU.
\* A tensor row is [x0, y0, x1, y1, score, classValue]: coordinates in pixels,
\* the score in hundredths, the class value in halves (159 is 79.5).
\* A detection holds its coordinates in units of 1/Resolution and its score in
\* hundredths.

PostInit ==
  /\ output = <<>>
  /\ finalDetections = <<>>
  /\ postStage = "idle"

PixelStep == INPUT_SIZE \div Resolution

\* Math.round of the class value.
MathRound(halves) == (halves + 1) \div 2

\* x / 640 without the clamp.
Unclamped(pixels) == pixels \div PixelStep

\* Math.max(0, Math.min(1, x / 640))
Clamp01(pixels) ==
  LET x == pixels \div PixelStep
      min == IF x < Resolution THEN x ELSE Resolution
  IN  IF min > 0 THEN min ELSE 0

\* YOLO_CLASSES[classId]
YoloClass(classId) == <<"YOLO_CLASSES", classId>>

\* score > 0.5
ScoreAccepted(score) == score > SCORE_THRESHOLD

\* The candidate of one row, or none: the body of the loop over numDets.
CandidateOf(row) ==
  LET classId == MathRound(row.classValue)
      xmin == Clamp01(row.x0)
      ymin == Clamp01(row.y0)
      xmax == Clamp01(row.x1)
      ymax == Clamp01(row.y1)
  IN  IF /\ ScoreAccepted(row.score)
         /\ classId >= 0
         /\ classId < NUM_CLASSES
         /\ xmax > xmin
         /\ ymax > ymin
        THEN <<[label |-> YoloClass(classId), score |-> row.score,
                xmin |-> xmin, ymin |-> ymin, xmax |-> xmax, ymax |-> ymax]>>
        ELSE <<>>

RECURSIVE Candidates(_)
Candidates(rows) ==
  IF rows = <<>> THEN <<>>
  ELSE CandidateOf(Head(rows)) \o Candidates(Tail(rows))

\* The candidates left in the order of their rows.
Unsorted(candidates) == candidates

\* candidates.sort((a, b) => b.score - a.score): descending, and stable.
SortByScore(candidates) ==
  LET n == Len(candidates)
      Before(j, i) == \/ candidates[j].score > candidates[i].score
                      \/ candidates[j].score = candidates[i].score /\ j < i
      Rank(i) == 1 + Cardinality({j \in 1..n : Before(j, i)})
  IN  [k \in 1..n |-> candidates[CHOOSE i \in 1..n : Rank(i) = k]]

Max(a, b) == IF a > b THEN a ELSE b
Min(a, b) == IF a < b THEN a ELSE b

\* fastIOU: intersection / (area1 + area2 - intersection + 1e-6) as a fraction,
\* the areas being in units of 1/Resolution^2.
FastIOU(box1, box2) ==
  LET x1 == Max(box1.xmin, box2.xmin)
      y1 == Max(box1.ymin, box2.ymin)
      x2 == Min(box1.xmax, box2.xmax)
      y2 == Min(box1.ymax, box2.ymax)
      intersection == Max(0, x2 - x1) * Max(0, y2 - y1)
      area1 == (box1.xmax - box1.xmin) * (box1.ymax - box1.ymin)
      area2 == (box2.xmax - box2.xmin) * (box2.ymax - box2.ymin)
  IN  [num |-> intersection * EPSILON_DEN,
       den |-> (area1 + area2 - intersection) * EPSILON_DEN
               + Resolution * Resolution]

\* fastIOU(...) > 0.5
OverThreshold(iou) == iou.num * 10 > NMS_THRESHOLD * iou.den

\* The suppression loop from index i on: the indices of the sorted candidates
\* that are pushed to finalDetections, given those suppressed so far.
RECURSIVE KeptFrom(_, _, _)
KeptFrom(candidates, i, suppressed) ==
  IF i > Len(candidates) THEN {}
  ELSE IF i \in suppressed THEN KeptFrom(candidates, i + 1, suppressed)
  ELSE {i} \cup KeptFrom(candidates, i + 1,
                  suppressed \cup
                    {j \in (i + 1)..Len(candidates) :
                       /\ j \notin suppressed
                       /\ OverThreshold(FastIOU(candidates[i], candidates[j]))})

\* The subsequence of seq at the indices in S.
RECURSIVE SelectIndices(_, _, _)
SelectIndices(seq, S, i) ==
  IF i > Len(seq) THEN <<>>
  ELSE (IF i \in S THEN <<seq[i]>> ELSE <<>>) \o SelectIndices(seq, S, i + 1)

\* postprocessResults(output, ...)
FinalDetections(rows) ==
  LET candidates == SortByScore(Candidates(rows))
  IN  SelectIndices(candidates, KeptFrom(candidates, 1, {}), 1)

Row(x0, y0, x1, y1, score, classValue) ==
  [x0 |-> x0, y0 |-> y0, x1 |-> x1, y1 |-> y1, score |-> score,
   classValue |-> classValue]

\* The boxes of the rows: the whole image, its upper half, its upper three
\* quarters, its lower half, a box that reaches beyond the image on both
\* sides, a box of no width, and a box to the right of the image.
RowBoxes ==
  LET top == 0
      full == Resolution * PixelStep
      half == (Resolution \div 2) * PixelStep
      most == ((3 * Resolution) \div 4) * PixelStep
  IN  { <<0, top, full, full>>, <<0, top, full, half>>, <<0, top, full, most>>,
        <<0, half, full, full>>,
        <<0 - PixelStep, top, full + PixelStep, full>>,
        <<half, top, half, full>>,
        <<full + PixelStep, top, full + 2 * PixelStep, full>> }

\* The scores of the rows, in hundredths: at both thresholds, just above the
\* higher one, and the highest.
RowScores == {SCORE_FLOOR, SCORE_THRESHOLD, SCORE_THRESHOLD + 1, 100}

\* The class values of the rows, in halves: -1, -0.5, 79 and 79.5.
RowClasses == {0 - 2, 0 - 1, 2 * (NUM_CLASSES - 1), 2 * NUM_CLASSES - 1}

\* Every box with every score above the threshold, the whole image with
\* every score, and the whole image at the highest score with every class
\* value.
Rows ==
  LET full == Resolution * PixelStep
  IN  {Row(b[1], b[2], b[3], b[4], s, 0 - 1) :
         b \in RowBoxes, s \in {t \in RowScores : t > SCORE_THRESHOLD}}
      \cup {Row(0, 0, full, full, s, 0 - 1) : s \in RowScores}
      \cup {Row(0, 0, full, full, 100, c) : c \in RowClasses}

\* The tensors of up to MaxDets rows.
RECURSIVE Tensors(_)
Tensors(n) ==
  IF n = 0 THEN {<<>>}
  ELSE LET shorter == Tensors(n - 1)
       IN  shorter \cup {Append(t, r) : t \in {u \in shorter : Len(u) = n - 1},
                                         r \in Rows}

\* runInference returns the output tensor.
RunInference(rows) ==
  /\ postStage = "idle"
  /\ output' = rows
  /\ postStage' = "inferred"
  /\ UNCHANGED finalDetections
  /\ UNCHANGED <<brokerVars, engineVars, viewerVars, captureVars, negoVars>>

\* const detections = postprocessResults(output, width, height)
Postprocess ==
  /\ postStage = "inferred"
  /\ finalDetections' = FinalDetections(output)
  /\ postStage' = "returned"
  /\ UNCHANGED output
  /\ UNCHANGED <<brokerVars, engineVars, viewerVars, captureVars, negoVars>>

PostNext ==
  \/ postStage = "idle" /\ \E rows \in Tensors(MaxDets) : RunInference(rows)
  \/ Postprocess

----------------------------------------------------------------------------
\* Capture peer (pages/phone.tsx): the frames channel and the streaming loop.

CaptureInit ==
  /\ framesChannel = "connecting"
  /\ streaming = FALSE
  /\ frameIdRef = 0
  /\ sendLog = <<>>
  /\ framesSent = 0

\* dataChannelRef.current.onopen
FramesChannelOpen ==
  /\ framesChannel = "connecting"
  /\ framesChannel' = "open"
  /\ UNCHANGED <<streaming, frameIdRef, sendLog, framesSent>>
  /\ UNCHANGED <<brokerVars, engineVars, viewerVars, postVars, negoVars>>

\* dataChannelRef.current.onclose: stopStreaming()
FramesChannelClose ==
  /\ framesChannel \in {"connecting", "open"}
  /\ framesChannel' = "closed"
  /\ streaming' = FALSE
  /\ UNCHANGED <<frameIdRef, sendLog, framesSent>>
  /\ UNCHANGED <<brokerVars, engineVars, viewerVars, postVars, negoVars>>

\* startStreaming, called 100 ms after onopen or from the page
StartStreaming ==
  /\ IF framesChannel = "open"
       THEN streaming' = TRUE /\ frameIdRef' = 0
       ELSE UNCHANGED <<streaming, frameIdRef>>
  /\ UNCHANGED <<framesChannel, sendLog, framesSent>>
  /\ UNCHANGED <<brokerVars, engineVars, viewerVars, postVars, negoVars>>

\* stopStreaming
StopStreaming ==
  /\ streaming' = FALSE
  /\ UNCHANGED <<framesChannel, frameIdRef, sendLog, framesSent>>
  /\ UNCHANGED <<brokerVars, engineVars, viewerVars, postVars, negoVars>>

\* One dataChannelRef.current.send call for the frame: what was passed and
\* whether the call returned (ok) or threw.
SendCall(frameId, captureStart, quality, ok) ==
  [frame_id |-> frameId, capture_ts |-> captureStart, quality |-> quality, ok |-> ok]

\* The send calls of one sendFrame: the frame at quality 0.8 and, if that call
\* throws, the same frame at quality 0.5; first and second tell which of the
\* calls return.
SendCalls(frameId, captureStart, first, second) ==
  IF first
    THEN <<SendCall(frameId, captureStart, JPEG_QUALITY, TRUE)>>
    ELSE <<SendCall(frameId, captureStart, JPEG_QUALITY, FALSE),
           SendCall(frameId, captureStart, FALLBACK_QUALITY, second)>>

\* The interval fires STREAM_INTERVAL ms after the last time: sendFrame.
SendFrame(first, second) ==
  /\ streaming
  /\ now' = now + STREAM_INTERVAL
  /\ IF framesChannel # "open"
       THEN UNCHANGED <<frameIdRef, sendLog, framesSent>>
       ELSE LET calls == SendCalls(frameIdRef, now', first, second)
            IN  /\ frameIdRef' = frameIdRef + 1
                /\ sendLog' = sendLog \o calls
                /\ framesSent' = IF calls[Len(calls)].ok THEN framesSent + 1
                                 ELSE framesSent
  /\ UNCHANGED <<framesChannel, streaming>>
  /\ UNCHANGED <<session, frameProcessingQueue, frames, engineLog, resultLog, loadVars>>
  /\ UNCHANGED <<brokerVars, viewerVars, postVars, negoVars>>

\* The capture peer: its channel opens and closes, streaming starts and stops,
\* and the interval fires while it runs.
CaptureNext ==
  \/ FramesChannelOpen
  \/ FramesChannelClose
  \/ StartStreaming
  \/ StopStreaming
  \/ /\ now < StartTime + MaxCaptureFrames * STREAM_INTERVAL
     /\ \E first, second \in BOOLEAN : SendFrame(first, second)

ViewerNext ==
  \/ StartDetection
  \/ StopDetection
  \/ Cleanup
  \/ ViewerPeerLeft
  \/ arrived < MaxViewerFrames /\ OnMessage
  \/ \E f \in 1..MaxViewerFrames : ProcessFrameSettled(f)

vars == <<brokerVars, engineVars, viewerVars, captureVars, postVars, negoVars>>

Init == BrokerInit /\ EngineInit /\ ViewerInit /\ CaptureInit /\ PostInit /\ NegoInit

SpecBroker == Init /\ [][BrokerNext]_vars

SpecEngine == Init /\ [][EngineNext]_vars

SpecThrottle == Init /\ [][ThrottleNext]_vars

SpecViewer == Init /\ [][ViewerNext]_vars

SpecLoad == Init /\ [][LoadNext]_vars

SpecChurn == Init /\ [][ChurnNext]_vars

SpecCapture == Init /\ [][CaptureNext]_vars

SpecPost == Init /\ [][PostNext]_vars

SpecNegotiation == Init /\ [][NegotiationNext]_vars

\* The event loop runs the listeners of the events that have arrived and the
\* createOffer timers that are due.
SpecNegotiationLive ==
  /\ SpecNegotiation
  /\ WF_vars(ViewerHandle)
  /\ WF_vars(CreateOffer)

SpecOffload == Init /\ [][OffloadNext]_vars

\* The event loop runs every callback that is ready: timers that are due, image
\* loads, delivered messages and scheduled tasks; and time passes.
SpecOffloadLive ==
  /\ SpecOffload
  /\ WF_vars(Tick)
  /\ \A f \in 1..MaxOffloadFrames : WF_vars(OffloadTimeout(f))


----------------------------------------------------------------------------
\* Viewer in server mode with a capture peer in its room.

\* The capture peer of the viewer's room.
CapturePeer == "s2"

\* The viewer offloads frames while the capture peer joins and leaves; the
\* viewer's socket listeners handle the notices of the broker.
PeerLeftNext ==
  \/ JoinRoom(ViewerSocket, ViewerRoom, "browser")
  \/ ChannelOpen
  \/ JoinRoom(CapturePeer, ViewerRoom, "phone")
  \/ Disconnect(CapturePeer)
  \/ ViewerHandle
  \/ LoadModel
  \/ ~isDetecting /\ StartDetection
  \/ arrived < MaxOffloadFrames /\ dataChannel = "open" /\ OnMessage
  \/ \E f \in 1..MaxOffloadFrames : OffloadSend(f)
  \/ \E f \in 1..MaxOffloadFrames : OffloadTimeout(f)
  \/ DeliverResult
  \/ \E i \in 1..MaxOffloadFrames : TaskStart(i)
  \/ \E i \in 1..MaxOffloadFrames : InferenceDone(i)
  \/ Tick

SpecPeerLeft == Init /\ [][PeerLeftNext]_vars


----------------------------------------------------------------------------
\* Viewer in wasm mode: processFrame runs the local model.

\* The mounted viewer in wasm mode: the page starts and stops detection, frames
\* arrive while the peer connection is open, the channel opens and closes, the
\* component unmounts.  The clock is read while a frame is processed, and the
\* image of the first frame may fail to load.
LocalNext ==
  \/ ChannelOpen
  \/ ChannelClose
  \/ peerConnection = "open" /\ ~isDetecting /\ StartDetection
  \/ peerConnection = "open" /\ isDetecting /\ StopDetection
  \/ peerConnection = "open" /\ Cleanup
  \/ CleanupOnUnmount
  \/ arrived < MaxLocalFrames /\ peerConnection = "open" /\ OnMessage
  \/ \E f \in 1..MaxLocalFrames : LocalInference(f, TRUE)
  \/ LocalInference(1, FALSE)
  \/ StatsResolved
  \/ inFlight # {} /\ Tick

SpecLocal == Init /\ [][LocalNext]_vars


----------------------------------------------------------------------------
\* Viewer metrics over a long run in wasm mode.

\* Detection is started once and frames arrive one after the other, each after
\* the metrics of the one before were reported; the local model may take a tick
\* for the first frames, and the first getStats() calls may be rejected.
MetricsNext ==
  \/ ~isDetecting /\ StartDetection
  \/ /\ arrived < MaxMetricFrames
     /\ isDetecting /\ ~processingFrame /\ statsPending = <<>>
     /\ OnMessage
  \/ \E f \in 1..MaxMetricFrames : LocalInference(f, TRUE)
  \/ StatsResolved
  \/ Len(metrics) < MaxStatsRejected /\ StatsRejected
  \/ arrived <= MaxSlowFrames /\ inFlight # {} /\ Tick

SpecMetrics == Init /\ [][MetricsNext]_vars

----------------------------------------------------------------------------
\* Helpers of the properties.

Count(seq, P(_)) == Cardinality({i \in 1..Len(seq) : P(seq[i])})

IsPrefix(a, b) == Len(a) <= Len(b) /\ SubSeq(b, 1, Len(a)) = a

SlotEntries(m, room) == {e \in m : e[1] = room}

JoinedAs(s, room, type) == connections[s] = [room |-> room, type |-> type]

\* The step is the join-room of socket s.
JoinStep(s) == connections[s] = NoConn /\ connections'[s] # NoConn

\* The step is the disconnect of socket s.
DisconnectStep(s) == status[s] = "open" /\ status'[s] = "closed"

\* The step is the relay of a message of the given kind.
RelayStep(kind) == relayed' = relayed + 1 /\ lastRelay'.kind = kind

----------------------------------------------------------------------------
\* C1: after any sequence of join-room and disconnect events every room has at
\* most one occupant of its capture (phone) slot and at most one occupant of
\* its viewer (browser) slot, hence at most two slot occupants in total.
C1_RoleSlotsSingular ==
  \A r \in Rooms :
    /\ Cardinality(SlotEntries(phoneConnections, r)) <= 1
    /\ Cardinality(SlotEntries(browserConnections, r)) <= 1
    /\ Cardinality(SlotEntries(phoneConnections, r))
         + Cardinality(SlotEntries(browserConnections, r)) <= 2

\* Two open connections joined the same room with the same role, a third one
\* has disconnected, and the slot of that role is filled.
C1_Witness ==
  \E r \in Rooms, t \in Types : \E a, b, c \in Sockets :
    /\ a # b
    /\ JoinedAs(a, r, t) /\ JoinedAs(b, r, t)
    /\ status[c] = "closed"
    /\ MapHas(SlotOf(t), r)

\* C2: an offer sent by A naming room R is delivered, unchanged except for the
\* added from = A, to every other socket in R and to nobody else (not to A, not
\* to a socket outside R).
C2_OfferRelay ==
  [][RelayStep("offer") =>
       LET A == lastRelay'.from
           data == lastRelay'.data
           delivered == [kind |-> "offer", peerId |-> None, type |-> None,
                         room |-> data.room, body |-> data.body, from |-> A]
       IN  \A x \in Sockets :
             inbox'[x] = IF x \in rooms[data.room] /\ x # A
                           THEN Append(inbox[x], delivered)
                           ELSE inbox[x]]_vars

\* A, a member of R, sent an offer; another member of R received it last, and a
\* third connection sits in another room.
C2_Witness ==
  /\ lastRelay.kind = "offer"
  /\ \E x, y \in Sockets :
       /\ x # lastRelay.from /\ y # lastRelay.from /\ x # y
       /\ lastRelay.from \in rooms[lastRelay.data.room]
       /\ x \in rooms[lastRelay.data.room]
       /\ connections[y] # NoConn /\ connections[y].room # lastRelay.data.room
       /\ Len(inbox[x]) > 0
       /\ inbox[x][Len(inbox[x])] = Relayed("offer", lastRelay.data, lastRelay.from)

----------------------------------------------------------------------------
\* Helpers of the engine properties.

FrameIds == 1..Len(frames)

\* The request passed the model check and the throttle.
Accepted(i) == frames[i].stage \in {"scheduled", "running", "done", "failed"}

\* The request reached the throttle test (the model was loaded).
Throttleable(i) == frames[i].stage # "rejected"

\* i and j are consecutive accepted requests of one room.
ConsecutiveAccepted(i, j) ==
  /\ i < j /\ frames[i].room = frames[j].room
  /\ Accepted(i) /\ Accepted(j)
  /\ \A k \in FrameIds : (i < k /\ k < j /\ frames[k].room = frames[i].room) => ~Accepted(k)

\* i is the last request accepted for the room of j before j arrived.
LastAcceptedBefore(i, j) ==
  /\ i < j /\ frames[i].room = frames[j].room /\ Accepted(i)
  /\ \A k \in FrameIds : (i < k /\ k < j /\ frames[k].room = frames[i].room) => ~Accepted(k)

EmissionsOf(i, kind) == Count(engineLog, LAMBDA e : e.req = i /\ e.kind = kind)

----------------------------------------------------------------------------
\* C5: in every room two consecutively accepted process-frame requests have
\* ingress times at least FRAME_PROCESSING_INTERVAL (100 ms) apart; a request
\* arriving 99 ms or less after the last accepted one is dropped and one arriving
\* 101 ms or more after it is accepted.
C5_ThrottleInterval ==
  \A i, j \in FrameIds :
    /\ ConsecutiveAccepted(i, j) =>
         frames[j].recv_ts - frames[i].recv_ts >= FRAME_PROCESSING_INTERVAL
    /\ (LastAcceptedBefore(i, j) /\ Throttleable(j)) =>
         /\ frames[j].recv_ts - frames[i].recv_ts <= 99 => frames[j].stage = "dropped"
         /\ frames[j].recv_ts - frames[i].recv_ts >= 101 => Accepted(j)

\* One room: a request accepted, the next 99 ms later dropped, the third 101 ms
\* after the first accepted.
C5_Witness ==
  \E i, j, k \in FrameIds :
    /\ i < j /\ j < k
    /\ frames[i].room = frames[j].room /\ frames[j].room = frames[k].room
    /\ Accepted(i) /\ Accepted(k)
    /\ frames[j].stage = "dropped"
    /\ frames[j].recv_ts - frames[i].recv_ts = 99
    /\ frames[k].recv_ts - frames[i].recv_ts = 101

\* C6: at every instant each room has at most one accepted frame whose
\* background task has started and has not yet emitted its result or error.
C6_OneInFlightPerRoom ==
  \A r \in Rooms :
    Cardinality({i \in FrameIds : frames[i].room = r /\ frames[i].stage = "running"}) <= 1

\* C7 as claimed: every request that passes the throttle produces exactly one
\* emission, a detection-result or a processing-error: never two, and not none
\* once its task has ended.
C7_ExactlyOneEmission ==
  \A i \in FrameIds :
    Accepted(i) =>
      /\ EmissionsOf(i, "detection-result") + EmissionsOf(i, "processing-error") <= 1
      /\ frames[i].stage \in {"done", "failed"} =>
           EmissionsOf(i, "detection-result") + EmissionsOf(i, "processing-error") = 1

\* C7 as amended: every request that passes the throttle produces at most one
\* emission: one processing-error to its sender if its task failed; otherwise,
\* when its task completes, one detection-result to the holder of the room's
\* viewer slot if there is one and no emission at all if there is none.
C7_AtMostOneEmission ==
  \A i \in FrameIds :
    Accepted(i) =>
      LET results == EmissionsOf(i, "detection-result")
          errors == EmissionsOf(i, "processing-error")
      IN  /\ results + errors <= 1
          /\ frames[i].stage \in {"scheduled", "running"} => results + errors = 0
          /\ frames[i].stage = "failed" =>
               /\ results = 0
               /\ Count(engineLog, LAMBDA e : e = Emission(i, "processing-error",
                                                           frames[i].from)) = 1
          /\ frames[i].stage = "done" =>
               /\ errors = 0
               /\ IF frames[i].viewer # None
                    THEN Count(engineLog, LAMBDA e : e = Emission(i, "detection-result",
                                                                frames[i].viewer)) = 1
                    ELSE results = 0

\* Two tasks completed: one found a viewer and emitted its result, the other
\* found the viewer slot empty and emitted nothing.
C7_Witness ==
  \E i, j \in FrameIds :
    /\ frames[i].stage = "done" /\ frames[i].viewer # None
    /\ EmissionsOf(i, "detection-result") = 1
    /\ frames[j].stage = "done" /\ frames[j].viewer = None
    /\ EmissionsOf(j, "detection-result") + EmissionsOf(j, "processing-error") = 0

\* C8: for one room detection-result messages are emitted in the order in which
\* their frames were accepted.
C8_ResultsInAcceptOrder ==
  \A p, q \in 1..Len(engineLog) :
    (/\ p < q
     /\ engineLog[p].kind = "detection-result"
     /\ engineLog[q].kind = "detection-result"
     /\ frames[engineLog[p].req].room = frames[engineLog[q].req].room)
      => engineLog[p].req < engineLog[q].req

----------------------------------------------------------------------------
\* Helpers of the viewer properties.

Range(seq) == {seq[i] : i \in 1..Len(seq)}

Newest(S) == CHOOSE f \in S : \A g \in S : g <= f

----------------------------------------------------------------------------
\* C9: in the viewer, after any sequence of frame arrivals, dispatch completions,
\* startDetection, stopDetection and cleanup calls, at most one frame is in flight
\* and at most one frame is held pending.
C9_PipelineDepth ==
  /\ Cardinality(inFlight) <= 1
  /\ Len(frameQueue) <= 1

----------------------------------------------------------------------------
\* Helpers of the offload properties.

OffloadIds == 1..Len(offload)

\* The frame was offloaded: process-frame was sent for it.
Offloaded(f) == offload[f].stage \in {"waiting", "settled"} /\ offload[f].deadline > 0

\* The results the viewer sent for frame f.
ReturnedFor(f) == {k \in 1..Len(returned) : returned[k].frame = f}

\* The step is the firing of the offload timer of frame f.
TimeoutStep(f) ==
  /\ f \in OffloadIds
  /\ offload[f].timer = "armed"
  /\ offload'[f].timer = "fired"

----------------------------------------------------------------------------
\* C11: every offload dispatch of the viewer terminates.  A promise is never
\* pending later than OFFLOAD_TIMEOUT (200 ms) after process-frame was sent; when
\* the timer fires, nothing having arrived, the viewer produces a result for the
\* frame with an empty detection list and clears its processing flag; a frame
\* that arrives while detection is on and the flag is clear is dispatched; and
\* every pending offload is eventually settled.
C11_OffloadTerminates ==
  /\ [](\A f \in OffloadIds :
          offload[f].stage = "waiting" =>
            /\ offload[f].timer = "armed"
            /\ now <= offload[f].deadline)
  /\ [][\A f \in 1..MaxOffloadFrames :
          TimeoutStep(f) =>
            /\ now = offload[f].deadline
            /\ offload'[f].stage = "settled"
            /\ ~processingFrame'
            /\ f \notin inFlight'
            /\ Len(statsPending') = Len(statsPending) + 1
            /\ statsPending'[Len(statsPending')].result.frame_id = received[f].frame_id
            /\ statsPending'[Len(statsPending')].result.detections = <<>>
            /\ dataChannel = "open" => Len(returned') > Len(returned)
            /\ \A k \in (Len(returned) + 1)..Len(returned') :
                 /\ returned'[k].frame = f
                 /\ returned'[k].result.frame_id = received[f].frame_id
                 /\ returned'[k].result.detections = <<>>]_vars
  /\ [][(arrived' = arrived + 1 /\ isDetecting /\ ~processingFrame) =>
          (arrived' \in inFlight' /\ dispatched' = Append(dispatched, arrived'))]_vars
  /\ \A f \in 1..MaxOffloadFrames :
       (f \in OffloadIds /\ offload[f].stage = "waiting")
          ~> (f \in OffloadIds /\ offload[f].stage = "settled")

\* The offload of a frame ended by its timer with an empty result and a later
\* frame was dispatched.
C11_Witness ==
  \E f, g \in OffloadIds :
    /\ f < g
    /\ offload[f].processed.by = "timeout"
    /\ \E k \in ReturnedFor(f) : returned[k].result.detections = <<>>
    /\ g \in Range(dispatched)

\* C12: a detection-result for a frame whose offload timer has fired has no
\* effect on a later frame: an offload that a detection-result completed was
\* completed by the result for its own frame, and the detections the viewer
\* reports for a frame are those of that frame.
C12_LateReplyDiscarded ==
  \A f \in OffloadIds :
    offload[f].processed.by = "reply" =>
      /\ offload[f].processed.frame_id = received[f].frame_id
      /\ offload[f].processed.detections = PostprocessResults(received[f].imageData)

\* C13: every detection-result the engine emits carries the frame_id and the
\* capture_ts of the process-frame request it was computed for, and every result
\* the viewer sends on the return channel carries the frame_id and the capture_ts
\* of the frame it was dispatched for.
C13_IdentityEchoed ==
  /\ \A k \in 1..Len(resultLog) :
       /\ resultLog[k].result.frame_id = frames[resultLog[k].req].frame_id
       /\ resultLog[k].result.capture_ts = frames[resultLog[k].req].capture_ts
  /\ \A k \in 1..Len(returned) :
       /\ returned[k].result.frame_id = received[returned[k].frame].frame_id
       /\ returned[k].result.capture_ts = received[returned[k].frame].capture_ts

\* The engine computed a result for the second frame the viewer got (its first
\* request), the viewer's offload of that frame was completed by a reply and its
\* result went out on the return channel; the offload of another frame timed out.
C13_Witness ==
  /\ \E k \in 1..Len(resultLog) : resultLog[k].req # resultLog[k].result.frame_id
  /\ \E k \in 1..Len(returned) : offload[returned[k].frame].processed.by = "reply"
  /\ \E k \in 1..Len(returned) : offload[returned[k].frame].processed.by # "reply"

\* capture_ts <= recv_ts <= inference_ts
Ordered(result) ==
  result.capture_ts <= result.recv_ts /\ result.recv_ts <= result.inference_ts

\* C14: every Detection Result, emitted by the engine or sent by the viewer on
\* the return channel (completed by a reply or by the timeout), satisfies
\* capture_ts <= recv_ts <= inference_ts.
C14_TimestampsOrdered ==
  /\ \A k \in 1..Len(resultLog) : Ordered(resultLog[k].result)
  /\ \A k \in 1..Len(returned) : Ordered(returned[k].result)

\* The step is the completion of the inference task of request i.
CompletionStep(i) ==
  /\ i \in FrameIds
  /\ frames[i].stage = "running"
  /\ frames'[i].stage = "done"

\* C15: the detection-result of a frame of room R goes only to the connection
\* that holds R's viewer slot at the moment inference completes, an open
\* connection that joined R as browser; if R has no viewer at that moment no
\* detection-result is emitted to anyone.
C15_ResultToViewerSlot ==
  [][\A i \in 1..MaxFrames :
       CompletionStep(i) =>
         LET R == frames[i].room
             holders == {s \in Sockets : <<R, s>> \in browserConnections}
         IN  IF holders = {}
               THEN resultLog' = resultLog
               ELSE /\ Len(resultLog') = Len(resultLog) + 1
                    /\ SubSeq(resultLog', 1, Len(resultLog)) = resultLog
                    /\ resultLog'[Len(resultLog')].req = i
                    /\ holders = {resultLog'[Len(resultLog')].to}
                    /\ \A s \in holders :
                         /\ status[s] = "open"
                         /\ connections[s] = [room |-> R, type |-> "browser"]]_vars

\* A frame sent by one connection was completed while another connection held
\* the viewer slot of its room and the result went to the holder; a frame of a
\* room without viewer was completed and no result was emitted for it.
C15_Witness ==
  \E i, j \in FrameIds :
    /\ frames[i].stage = "done" /\ frames[j].stage = "done"
    /\ \E k \in 1..Len(resultLog) :
         /\ resultLog[k].req = i
         /\ resultLog[k].to # frames[i].from
         /\ resultLog[k].to = frames[i].viewer
    /\ frames[j].viewer = None
    /\ \A k \in 1..Len(resultLog) : resultLog[k].req # j

----------------------------------------------------------------------------
\* Helpers of the model lifecycle properties.

LoadIds == 1..Len(loads)

\* The step is the ingress of a process-frame request.
IngressStep == Len(frames') = Len(frames) + 1

\* No detection-result was ever emitted for request i.
NoResultFor(i) ==
  /\ EmissionsOf(i, "detection-result") = 0
  /\ \A k \in 1..Len(resultLog) : resultLog[k].req # i

----------------------------------------------------------------------------
\* C16: across any interleaving of the startup load, POST /initialize-model and
\* initialize-server-model the detector is created at most once, and a request
\* issued after a load has begun starts no other load: at most one load is ever
\* in progress or completed.
C16_DetectorCreatedOnce ==
  Cardinality({k \in LoadIds : loads[k].state \in {"loading", "created"}}) <= 1

\* C17: while the detector is not loaded a process-frame request yields exactly
\* one processing-error to its sender and no detection-result, then or later,
\* and leaves the throttle timestamps as they were; once an initialization has
\* succeeded the requests that arrive are taken to the throttle again.
C17_NotLoadedRejects ==
  /\ [][IngressStep =>
          LET i == Len(frames')
          IN  IF session = "null"
                THEN /\ frames'[i].stage = "rejected"
                     /\ engineLog' = Append(engineLog,
                                            Emission(i, "processing-error", frames'[i].from))
                     /\ resultLog' = resultLog
                     /\ frameProcessingQueue' = frameProcessingQueue
                ELSE /\ frames'[i].stage \in {"dropped", "scheduled"}
                     /\ engineLog' = engineLog]_vars
  /\ [](\A i \in FrameIds :
          frames[i].stage = "rejected" =>
            /\ EmissionsOf(i, "processing-error") = 1
            /\ NoResultFor(i))
  /\ [](session = "null" <=> \A k \in LoadIds : loads[k].state # "created")

\* The startup load failed, a frame was rejected, a requested load succeeded and
\* a later frame was processed to the end.
C17_Witness ==
  /\ loads[1].state = "failed"
  /\ \E k \in LoadIds : loads[k].state = "created" /\ loads[k].by # "startup"
  /\ \E i, j \in FrameIds :
       /\ i < j
       /\ frames[i].stage = "rejected"
       /\ frames[j].stage = "done"
       /\ frames[j].recv_ts - frames[i].recv_ts = FRAME_PROCESSING_INTERVAL
       /\ frameProcessingQueue[frames[j].room] = frames[j].recv_ts

\* The step is the failure of the task of request i.
FailureStep(i) ==
  /\ i \in FrameIds
  /\ frames[i].stage = "running"
  /\ frames'[i].stage = "failed"

\* C18: when the preprocessing (decoding, resizing) or the inference of an
\* accepted frame fails, the engine emits one processing-error to the connection
\* that sent the frame and never a detection-result for it, and the throttle
\* timestamp of the room is not rewound: it stays the ingress time of the last
\* accepted frame, so a frame that arrives less than 100 ms after the failed one
\* is dropped.
C18_FailureKeepsThrottle ==
  /\ [][\A i \in 1..MaxThrottleFrames :
          FailureStep(i) =>
            /\ engineLog' = Append(engineLog,
                                   Emission(i, "processing-error", frames[i].from))
            /\ resultLog' = resultLog
            /\ frameProcessingQueue' = frameProcessingQueue]_vars
  /\ [](\A i \in FrameIds :
          frames[i].stage = "failed" =>
            /\ EmissionsOf(i, "processing-error") = 1
            /\ NoResultFor(i)
            /\ frameProcessingQueue[frames[i].room] >= frames[i].recv_ts
            /\ \A j \in FrameIds :
                 (/\ i < j
                  /\ frames[j].room = frames[i].room
                  /\ frames[j].recv_ts - frames[i].recv_ts < FRAME_PROCESSING_INTERVAL)
                   => frames[j].stage = "dropped")

\* The task of an accepted frame failed and a frame of the same room that came
\* 99 ms after it was dropped, after the failure.
C18_Witness ==
  \E i, j \in FrameIds :
    /\ i < j
    /\ frames[i].room = frames[j].room
    /\ frames[i].stage = "failed"
    /\ frames[j].stage = "dropped"
    /\ frames[j].recv_ts - frames[i].recv_ts = FRAME_PROCESSING_INTERVAL - 1
    /\ \E p \in 1..Len(engineLog) :
         engineLog[p] = Emission(i, "processing-error", frames[i].from)

----------------------------------------------------------------------------
\* The connections that are in room r with role t.
MembersAs(r, t) == {s \in rooms[r] : connections[s] = [room |-> r, type |-> t]}

\* C19: when a second peer joins a room with a role that is taken, the join is
\* either rejected or evicts the first peer, in every room and for both roles:
\* either way a room never has two members of one role, and the member of a
\* role is the holder of its slot.
C19_SecondJoinRejectedOrEvicts ==
  \A r \in Rooms, t \in Types :
    /\ Cardinality(MembersAs(r, t)) <= 1
    /\ \A s \in MembersAs(r, t) : MapGet(SlotOf(t), r) = s

----------------------------------------------------------------------------
\* Helpers of the churn property.

\* The events of its socket the viewer has handled.
Handled == SubSeq(inbox[ViewerSocket], 1, viewerRead)

\* The positions of an event in what the server emitted to the viewer.
PositionsOf(ev) == {p \in 1..Len(inbox[ViewerSocket]) : inbox[ViewerSocket][p] = ev}

\* The step is the viewer handling the event ev.
HandleStep(ev) ==
  /\ viewerRead' = viewerRead + 1
  /\ viewerRead < Len(inbox[ViewerSocket])
  /\ inbox[ViewerSocket][viewerRead + 1] = ev

\* C joined while V held the viewer slot of C's room: the first event C got is
\* the notice of the counterpart that was there.
JoinedAfterViewer(C) ==
  Len(inbox[C]) > 0 /\ inbox[C][1] = PeerJoined(ViewerSocket, "browser")

\* C20: with viewer V in room R, a capture peer C that joins R and then
\* disconnects makes V receive peer-joined(C, phone) and later
\* peer-left(C, phone); when V handles the peer-left it is not detecting; and
\* every peer-joined(phone) V handles, also that of a capture peer that joins R
\* afterwards, schedules one offer, which V emits for R.
C20_PeerChurn ==
  /\ [][\A C \in CaptureSockets :
          /\ (/\ JoinStep(C)
              /\ connections'[C] = [room |-> ViewerRoom, type |-> "phone"]
              /\ ViewerSocket \in rooms[ViewerRoom])
               => inbox'[ViewerSocket] =
                    Append(inbox[ViewerSocket], PeerJoined(C, "phone"))
          /\ (/\ DisconnectStep(C)
              /\ connections[C] = [room |-> ViewerRoom, type |-> "phone"]
              /\ ViewerSocket \in rooms[ViewerRoom])
               => /\ inbox'[ViewerSocket] =
                       Append(inbox[ViewerSocket], PeerLeft(C, "phone"))
                  /\ JoinedAfterViewer(C) => PositionsOf(PeerJoined(C, "phone")) # {}
          /\ HandleStep(PeerLeft(C, "phone")) => ~isDetecting'
          /\ HandleStep(PeerJoined(C, "phone")) => offersDue' = offersDue + 1]_vars
  /\ [][offersMade' = offersMade + 1 =>
          /\ offersDue > 0
          /\ lastRelay' = [kind |-> "offer", from |-> ViewerSocket,
                           data |-> [room |-> ViewerRoom, body |-> BodyOf[ViewerSocket]]]
          /\ \A x \in rooms[ViewerRoom] \ {ViewerSocket} :
               inbox'[x] = Append(inbox[x],
                                  Relayed("offer", lastRelay'.data, ViewerSocket))]_vars
  /\ [](\A C \in CaptureSockets :
          \A p \in PositionsOf(PeerJoined(C, "phone")), q \in PositionsOf(PeerLeft(C, "phone")) :
            p < q)
  /\ [](offersDue + offersMade =
          Count(Handled, LAMBDA ev : ev.kind = "peer-joined" /\ ev.type = "phone"))

\* V joined its room, C joined it and disconnected, another capture peer joined
\* it: V has handled peer-joined(C), peer-left(C) and the second peer-joined in
\* that order, is not detecting, and has emitted an offer for each of the two.
C20_Witness ==
  /\ viewerRead = Len(inbox[ViewerSocket])
  /\ ~isDetecting
  /\ offersMade = 2
  /\ offersDue = 0
  /\ \E C, D \in CaptureSockets :
       /\ C # D
       /\ status[C] = "closed"
       /\ \E p, q, r \in 1..Len(inbox[ViewerSocket]) :
            /\ p < q /\ q < r
            /\ inbox[ViewerSocket][1] = PeerJoined(ViewerSocket, "browser")
            /\ inbox[ViewerSocket][p] = PeerJoined(C, "phone")
            /\ inbox[ViewerSocket][q] = PeerLeft(C, "phone")
            /\ inbox[ViewerSocket][r] = PeerJoined(D, "phone")
       /\ Len(inbox[D]) > 0
       /\ inbox[D][Len(inbox[D])].kind = "offer"

----------------------------------------------------------------------------
\* C21: when the viewer handles peer-left for the capture peer while an offload
\* request is awaiting its detection-result, the await completes in that step
\* with an empty detection list: the promise is settled, its detections are
\* empty, and neither the timer nor a reply was needed for it.
C21_PeerLeftEndsOffload ==
  [][HandleStep(PeerLeft(CapturePeer, "phone")) =>
       \A f \in OffloadIds :
         offload[f].stage = "waiting" =>
           /\ offload'[f].stage = "settled"
           /\ offload'[f].processed.detections = <<>>
           /\ offload'[f].processed.by \notin {"timeout", "reply"}]_vars

----------------------------------------------------------------------------
\* Helpers of the return-channel properties.

\* The frames whose processFrame promise is settled in the step.
SettledInStep == inFlight \ inFlight'

\* The sends the step adds to the return channel.
NewSends == (Len(returned) + 1)..Len(returned')

\* The position of frame f in the order of dispatch.
DispatchIndex(f) == CHOOSE p \in 1..Len(dispatched) : dispatched[p] = f

\* C22: the viewer sends its results on the return data channel in the order
\* in which the frames they are for were dispatched: a result sent later is
\* never for a frame dispatched earlier.
C22_ReturnInDispatchOrder ==
  \A i, j \in 1..Len(returned) :
    i < j => DispatchIndex(returned[i].frame) <= DispatchIndex(returned[j].frame)

\* C23: a result produced while the return data channel is not open is not
\* sent; what a step sends is the result of a frame settled in that step, so a
\* result that was not sent when it was produced is never sent later; and the
\* processing flag is clear after the step, so the next frame that arrives
\* while detection is on is dispatched.
C23_NotOpenNotSent ==
  /\ [][(SettledInStep # {} /\ dataChannel # "open") => returned' = returned]_vars
  /\ [][\A k \in NewSends : returned'[k].frame \in SettledInStep]_vars
  /\ [][SettledInStep # {} => ~processingFrame']_vars
  /\ [][(arrived' = arrived + 1 /\ isDetecting /\ ~processingFrame) =>
          (arrived' \in inFlight' /\ dispatched' = Append(dispatched, arrived'))]_vars

\* The result of a frame was produced while the channel was not yet open and
\* was never sent; the channel has opened since and the result of a later
\* frame has been sent.
C23_Witness ==
  \E f, g \in OffloadIds :
    /\ f < g
    /\ offload[f].stage = "settled" /\ offload[f].processed.by = "local"
    /\ ReturnedFor(f) = {}
    /\ dataChannel = "open"
    /\ offload[g].stage = "settled"
    /\ ReturnedFor(g) # {}

----------------------------------------------------------------------------
\* The step is the shutdown of the viewer: the cleanup of the unmounting
\* component.
ShutdownStep == peerConnection = "open" /\ peerConnection' = "closed"

\* C27: the shutdown of the viewer closes the peer connection and the data
\* channel and leaves the pending frame slot empty and the processing flag
\* clear; and after it no dispatch that was in flight sends a result, counts
\* a frame, records a latency or reports metrics.
C27_ShutdownCancels ==
  /\ [][ShutdownStep =>
          /\ dataChannel' = "closed"
          /\ frameQueue' = <<>>
          /\ ~processingFrame']_vars
  /\ [][peerConnection = "closed" =>
          /\ returned' = returned
          /\ frameCounter' = frameCounter
          /\ latencyHistory' = latencyHistory
          /\ Len(statsPending') <= Len(statsPending)]_vars

\* C30: in wasm mode the server latency and the network latency reported with
\* every result are 0.
C30_LocalLatenciesZero ==
  \A k \in 1..Len(metrics) :
    /\ metrics[k].serverLatency = 0
    /\ metrics[k].networkLatency = 0

----------------------------------------------------------------------------
\* The step relays a message of sender A, which has joined the room the
\* message names, while no member of the room has the opposite role.
RelayWithoutCounterpart ==
  /\ relayed' = relayed + 1
  /\ LET A == lastRelay'.from
         R == lastRelay'.data.room
     IN  /\ connections[A] # NoConn
         /\ connections[A].room = R
         /\ MembersAs(R, Opposite(connections[A].type)) = {}

\* C25: an offer, answer or ice-candidate relayed for room R while the opposite
\* role is absent is delivered to nobody and produces nothing for the sender
\* (no event is emitted at all), and a peer that joins afterwards is told about
\* peers only: what a join delivers to the newcomer are peer-joined notices.
C25_AbsentCounterpartDropped ==
  /\ [][RelayWithoutCounterpart => inbox' = inbox]_vars
  /\ [][\A s \in Sockets :
          JoinStep(s) =>
            \A k \in (Len(inbox[s]) + 1)..Len(inbox'[s]) :
              inbox'[s][k].kind = "peer-joined"]_vars

----------------------------------------------------------------------------
\* C26 as claimed: a request that reaches the throttle is accepted exactly if
\* the time since the room's last accepted ingress strictly exceeds
\* FRAME_PROCESSING_INTERVAL (100 ms); one arriving exactly 100 ms after the
\* last accepted one is dropped.
C26_AcceptedAboveInterval ==
  \A i, j \in FrameIds :
    (LastAcceptedBefore(i, j) /\ Throttleable(j)) =>
      (Accepted(j) <=> frames[j].recv_ts - frames[i].recv_ts > FRAME_PROCESSING_INTERVAL)

\* C26 as amended: a request that reaches the throttle is accepted exactly if
\* the time since the room's last accepted ingress is at least
\* FRAME_PROCESSING_INTERVAL (100 ms) and is dropped otherwise; one arriving
\* exactly 100 ms after the last accepted one is accepted.
C26_AcceptedFromInterval ==
  \A i, j \in FrameIds :
    (LastAcceptedBefore(i, j) /\ Throttleable(j)) =>
      /\ Accepted(j) <=>
           frames[j].recv_ts - frames[i].recv_ts >= FRAME_PROCESSING_INTERVAL
      /\ ~Accepted(j) => frames[j].stage = "dropped"

\* A request was accepted exactly 100 ms after the last accepted request of its
\* room, and one that came 99 ms after an accepted request was dropped.
C26_Witness ==
  /\ \E i, j \in FrameIds :
       /\ LastAcceptedBefore(i, j)
       /\ frames[j].recv_ts - frames[i].recv_ts = FRAME_PROCESSING_INTERVAL
       /\ Accepted(j)
  /\ \E i, j \in FrameIds :
       /\ LastAcceptedBefore(i, j)
       /\ frames[j].recv_ts - frames[i].recv_ts = FRAME_PROCESSING_INTERVAL - 1
       /\ frames[j].stage = "dropped"

----------------------------------------------------------------------------
\* C24: when a send of a frame throws on the capture peer, the frame is not
\* sent again in any form: no other send call of the log carries the frame of
\* a call that threw.
C24_SendFailureOnlyLogged ==
  \A k, m \in 1..Len(sendLog) :
    (~sendLog[k].ok /\ m # k) =>
      ~(/\ sendLog[m].frame_id = sendLog[k].frame_id
        /\ sendLog[m].capture_ts = sendLog[k].capture_ts)

----------------------------------------------------------------------------
\* Helpers of the metrics properties.

\* The last n elements of seq, in their order.
NewestOf(seq, n) ==
  IF Len(seq) <= n THEN seq ELSE SubSeq(seq, Len(seq) - n + 1, Len(seq))

\* v is the element at index (counted from 0) of the ascending arrangement of
\* window: at most index elements are below v and more than index elements are
\* not above it.
AtSortedIndex(window, index, v) ==
  /\ \E k \in 1..Len(window) : window[k] = v
  /\ Cardinality({k \in 1..Len(window) : window[k] < v}) <= index
  /\ Cardinality({k \in 1..Len(window) : window[k] <= v}) > index

\* The step reports metrics: onMetricsUpdate is called.
ReportStep == Len(metrics') = Len(metrics) + 1

\* C28: the latency history never holds more than 100 samples and the bandwidth
\* history never more than 10 snapshots, and they are the most recent ones: a
\* result adds its latency at the end of the latency history and a snapshot is
\* added at the end of the bandwidth history, the oldest entry being dropped
\* when the history is full.
C28_HistoriesBounded ==
  /\ [](Len(latencyHistory) <= LATENCY_WINDOW)
  /\ [](Len(bandwidthHistory) <= BANDWIDTH_WINDOW)
  /\ [][\A f \in SettledInStep :
          latencyHistory' =
            NewestOf(Append(latencyHistory, now - received[f].capture_ts),
                     LATENCY_WINDOW)]_vars
  /\ [][(ReportStep /\ bandwidthHistory' # bandwidthHistory) =>
          /\ bandwidthHistory'[Len(bandwidthHistory')].timestamp = now
          /\ SubSeq(bandwidthHistory', 1, Len(bandwidthHistory') - 1) =
               NewestOf(bandwidthHistory, BANDWIDTH_WINDOW - 1)]_vars

\* More than 100 results were measured and more than 10 snapshots taken: both
\* histories are full, and the latency of the first result, which took a tick
\* longer than the later ones, is no longer in the latency history.
C28_Witness ==
  /\ frameCounter > LATENCY_WINDOW
  /\ Len(latencyHistory) = LATENCY_WINDOW
  /\ Len(bandwidthHistory) = BANDWIDTH_WINDOW
  /\ Len(metrics) > LATENCY_WINDOW
  /\ metrics[1].current > ChannelDelay
  /\ \A k \in 1..Len(latencyHistory) : latencyHistory[k] = ChannelDelay
  /\ bandwidthHistory[1].bytesReceived = arrived - BANDWIDTH_WINDOW + 1

\* C29: for the latency window of n >= 1 samples a result leaves, the reported
\* p95 is the element at index floor(0.95 n) and the reported median the
\* element at index floor(n / 2) of the ascending-sorted window; the window
\* the values are taken from is the latency history as the result left it, in
\* arrival order, and reporting does not change the history.
C29_PercentilesOfSortedCopy ==
  /\ [][ReportStep =>
          LET window == Head(statsPending).copy
              n == Len(window)
              reported == metrics'[Len(metrics')]
          IN  /\ n >= 1
              /\ AtSortedIndex(window, (95 * n) \div 100, reported.p95)
              /\ AtSortedIndex(window, n \div 2, reported.median)
              /\ latencyHistory' = latencyHistory]_vars
  /\ [][\A f \in SettledInStep :
          /\ statsPending'[Len(statsPending')].copy = latencyHistory'
          /\ latencyHistory' =
               NewestOf(Append(latencyHistory, now - received[f].capture_ts),
                        LATENCY_WINDOW)]_vars

\* The metrics of a window of 21 samples that is not sorted were reported: its
\* first sample is the largest, the p95 is one of the other samples, and the
\* history is still in arrival order.
C29_Witness ==
  /\ Len(metrics) = 21
  /\ Len(latencyHistory) = 21
  /\ latencyHistory[1] > latencyHistory[2]
  /\ metrics[21].p95 = latencyHistory[2]
  /\ metrics[21].median = latencyHistory[2]
  /\ metrics[3].p95 = latencyHistory[1]
  /\ metrics[3].median = latencyHistory[2]

----------------------------------------------------------------------------
\* C31. Every detection postprocessResults returns has 0 <= xmin < xmax <= 1
\* and 0 <= ymin < ymax <= 1, the label of a class id in [0, 80) and a score in
\* (0.45, 1]; a row whose score is exactly 0.45 yields no detection.
C31_DetectionsWellFormed ==
  postStage = "returned" =>
    /\ \A i \in 1..Len(finalDetections) :
         LET d == finalDetections[i]
         IN  /\ 0 <= d.xmin /\ d.xmin < d.xmax /\ d.xmax <= Resolution
             /\ 0 <= d.ymin /\ d.ymin < d.ymax /\ d.ymax <= Resolution
             /\ \E classId \in 0..(NUM_CLASSES - 1) : d.label = YoloClass(classId)
             /\ d.score > SCORE_FLOOR /\ d.score <= 100
    /\ (\A i \in 1..Len(output) : output[i].score = SCORE_FLOOR)
         => finalDetections = <<>>

\* A tensor with a row at score 0.45 and a row whose box reaches beyond the
\* image on both sides was postprocessed: only the second is returned, clamped
\* to the image.
C31_Witness ==
  /\ postStage = "returned"
  /\ Len(output) = 2
  /\ output[1].score = SCORE_FLOOR /\ output[1].x0 = 0 /\ output[1].x1 = INPUT_SIZE
  /\ output[1].y0 = 0 /\ output[1].y1 = INPUT_SIZE
  /\ output[2].x0 < 0 /\ output[2].x1 > INPUT_SIZE
  /\ Len(finalDetections) = 1
  /\ finalDetections[1].xmin = 0 /\ finalDetections[1].xmax = Resolution
  /\ finalDetections[1].score = output[2].score

----------------------------------------------------------------------------
\* The returned detections are in descending score order and no two of them
\* overlap by more than the threshold, measured by fastIOU.
ReturnedSortedAndApart ==
  /\ \A i, j \in 1..Len(finalDetections) :
       i < j => finalDetections[i].score >= finalDetections[j].score
  /\ \A i, j \in 1..Len(finalDetections) :
       i # j => ~OverThreshold(FastIOU(finalDetections[i], finalDetections[j]))

\* The candidates of the tensor that are not among the returned detections.
Removed == {c \in Range(Candidates(output)) : c \notin Range(finalDetections)}

\* C32 (as stated). The returned detections are in descending score order,
\* every pair of them has IoU <= 0.5 by fastIOU, and a candidate is removed
\* only if a returned candidate with a higher score overlaps it with IoU > 0.5.
C32_RemovedByHigherScored ==
  postStage = "returned" =>
    /\ ReturnedSortedAndApart
    /\ \A c \in Removed :
         \E d \in Range(finalDetections) :
           d.score > c.score /\ OverThreshold(FastIOU(d, c))

\* C32 (amended). The returned detections are in descending score order, every
\* pair of them has IoU <= 0.5 by fastIOU, and a candidate is removed only if a
\* returned candidate whose score is at least as high overlaps it with
\* IoU > 0.5.
C32_RemovedByNotLowerScored ==
  postStage = "returned" =>
    /\ ReturnedSortedAndApart
    /\ \A c \in Removed :
         \E d \in Range(finalDetections) :
           d.score >= c.score /\ OverThreshold(FastIOU(d, c))

\* Three candidates of one score were postprocessed: the first and the second
\* share exactly half of their union and are both returned, the third is
\* removed by a candidate of its own score.
C32_Witness ==
  /\ postStage = "returned"
  /\ Len(output) = 3
  /\ Len(finalDetections) = 2
  /\ LET a == finalDetections[1]
         b == finalDetections[2]
         iou == FastIOU(a, b)
     IN  /\ a.score = b.score
         /\ 2 * (iou.num \div EPSILON_DEN) = iou.den \div EPSILON_DEN
  /\ \E c \in Removed : \A d \in Range(finalDetections) : d.score = c.score

----------------------------------------------------------------------------
\* C33. The frames the capture peer has sent, across any sequence of
\* startStreaming and stopStreaming calls, carry pairwise distinct frame_id
\* values and non-decreasing capture_ts values.
C33_FrameIdsDistinct ==
  \A i, j \in 1..Len(sendLog) :
    (i < j /\ sendLog[i].ok /\ sendLog[j].ok) =>
      /\ sendLog[i].frame_id # sendLog[j].frame_id
      /\ sendLog[i].capture_ts <= sendLog[j].capture_ts

----------------------------------------------------------------------------
\* Helpers of the negotiation properties.

\* The events capture peer s has handled.
PeerHandled(s) == SubSeq(inbox[s], 1, peerRead[s])

\* The step is capture peer s handling an event of the given kind.
PeerHandleStep(s, kind) ==
  /\ peerRead'[s] = peerRead[s] + 1
  /\ peerRead[s] < Len(inbox[s])
  /\ inbox[s][peerRead[s] + 1].kind = kind

\* The peer-joined events for capture peers the broker has emitted to the viewer.
PhoneJoinsEmitted ==
  Count(inbox[ViewerSocket], LAMBDA ev : ev.kind = "peer-joined" /\ ev.type = "phone")

----------------------------------------------------------------------------
\* C40. No ICE candidate relayed to a peer is lost: every candidate a peer has
\* handled, also one that arrived before the peer set its remote description,
\* has been applied or is held to be applied; none was rejected.
C40_NoCandidateLost ==
  \A s \in Sockets : iceLost[s] = <<>>

----------------------------------------------------------------------------
\* The role slot of room r for role t: its occupants.
SlotIds(r, t) == {e[2] : e \in SlotEntries(SlotOf(t), r)}

\* The same after the step.
SlotIdsAfter(r, t) ==
  {e[2] : e \in SlotEntries(IF t = "phone" THEN phoneConnections'
                            ELSE browserConnections', r)}

\* C35. The role slot of room R for role r holds p exactly when p is still
\* connected and is the most recent connection to have joined R with role r:
\* a join with (R, r) puts the joiner in the slot; the disconnect of the
\* slot's occupant empties it; the disconnect of a peer whose slot was taken
\* over by a later joiner leaves the later joiner in the slot; and no slot
\* holds a connection that is gone.
C35_SlotFollowsLatestJoiner ==
  /\ [][\A s \in Sockets, r \in Rooms, t \in Types :
          /\ (JoinStep(s) /\ connections'[s] = [room |-> r, type |-> t])
               => SlotIdsAfter(r, t) = {s}
          /\ (DisconnectStep(s) /\ JoinedAs(s, r, t))
               => SlotIdsAfter(r, t) = SlotIds(r, t) \ {s}]_vars
  /\ [](\A r \in Rooms, t \in Types :
          \A p \in SlotIds(r, t) : status[p] = "open" /\ JoinedAs(p, r, t))

----------------------------------------------------------------------------
\* C36. The connections that receive what is relayed or broadcast for room R
\* (the members of R) are at most two, at most one per role, and are exactly
\* the connections held in R's two role slots.
C36_ReceiversAreSlotHolders ==
  \A r \in Rooms :
    /\ Cardinality(rooms[r]) <= 2
    /\ \A t \in Types : Cardinality(MembersAs(r, t)) <= 1
    /\ rooms[r] = SlotIds(r, "phone") \cup SlotIds(r, "browser")

----------------------------------------------------------------------------
\* Connection s is open and has never joined a room: a connection joins once
\* and keeps its entry until it disconnects.
NeverJoined(s) == status[s] = "open" /\ connections[s] = NoConn

\* An offer, answer or ice-candidate of a connection that never joined reaches
\* no member of the room it names.
RelayNeedsMembership ==
  [][\A kind \in RelayKinds :
       (RelayStep(kind) /\ NeverJoined(lastRelay'.from))
         => \A x \in rooms[lastRelay'.data.room] : inbox'[x] = inbox[x]]_vars

\* No detection-result is emitted for a process-frame of a connection that
\* never joined.
ResultNeedsMembership ==
  [][Len(resultLog') > Len(resultLog) =>
       ~NeverJoined(frames[resultLog'[Len(resultLog')].req].from)]_vars

\* C37. Only a connection that has joined room R can cause a message to be
\* delivered to R's peers: an offer, answer, ice-candidate or process-frame
\* naming R from a connection that never joined R leads to no delivery to a
\* peer of R.
C37_OnlyMembersCauseDelivery ==
  RelayNeedsMembership /\ ResultNeedsMembership

----------------------------------------------------------------------------
\* The detection-result messages the engine emitted for the request that
\* carried frame f of the viewer.
EngineResultsFor(f) ==
  {resultLog[k].result : k \in {j \in 1..Len(resultLog) :
     /\ frames[resultLog[j].req].from = ViewerSocket
     /\ frames[resultLog[j].req].frame_id = received[f].frame_id}}

\* C38. In offload mode the Detection Result the viewer produces for frame f
\* holds either the detections and the inference_ts that the engine computed
\* for f, or an empty detection list; never the detections of another frame.
C38_ResultMatchesFrame ==
  \A k \in 1..Len(returned) :
    LET f == returned[k].frame
        result == returned[k].result
    IN  \/ result.detections = <<>>
        \/ \E computed \in EngineResultsFor(f) :
             /\ result.detections = computed.detections
             /\ result.inference_ts = computed.inference_ts

----------------------------------------------------------------------------
\* C39. For each frame the viewer dispatches while the return data channel is
\* open, exactly one Detection Result message is sent to the capture peer: the
\* step that completes the frame with the channel open sends one message for
\* it, and no frame ever has more than one.
C39_OneResultPerFrame ==
  /\ [][\A f \in SettledInStep :
          dataChannel = "open" =>
            Cardinality({k \in NewSends : returned'[k].frame = f}) = 1]_vars
  /\ [](\A f \in Range(dispatched) : Cardinality(ReturnedFor(f)) <= 1)

====
